---- MODULE Spec2Model ----
(***************************************************************************)
(* AptRouterAPI: stream normalizers (OpenAI, Anthropic, Google), the       *)
(* EnhancedStreamReader metering wrapper, and balance adjustment.          *)
(*                                                                         *)
(* Money is kept as integers in units of 1e-8 USD, so that                 *)
(* tokens * pricePerMillion * (100 + markupPercent) is exact.              *)
(***************************************************************************)
EXTENDS Integers, Sequences, FiniteSets, TLC

\* ------------------------------------------------------------------ bounds
MaxUnits == 2
MaxChunk == 2
MaxBuf == 2
MaxTok == 2
MaxCloses == 2
MaxReqs == 2

\* ------------------------------------------------------------------ state
VARIABLES
    \* provider backend of one stream
    kind,           \* "openai" | "anthropic" | "google" | "none"
    p_n,            \* units the backend has produced so far
    p_bytes,        \* text bytes the backend has produced so far (bytes are numbered)
    p_end,          \* "open" | "eof" | "error": how the provider stream ended
    lastReport,     \* the last non-zero usage report the backend produced
    procReport,     \* the last non-zero usage report in a unit the normalizer processed
    \* normalizer fields (OpenAIStreamReader / AnthropicStreamReader / GoogleStreamReader)
    buffer, pos, closed, inputTokens, outputTokens, usageFound,
    \* GoogleStreamReader channels and bridging goroutine
    started,        \* r.items != nil
    items, errors, doneClosed,
    g_pc,           \* "idle" | "iter" | "send_item" | "send_err" | "defer" | "exited" | "panicked"
    g_cur,          \* the unit the goroutine is handing over
    \* the consumer thread
    c_pc,           \* "idle" | "select" | "close_do" | "panicked"
    c_n,            \* len(p) of the Read blocked in select
    ret,            \* result of the last Read: [n, err]
    delivered,      \* bytes returned by Read so far
    closeCalled,    \* Close has been called on the normalizer
    failed,         \* a Read of the normalizer has returned a non-EOF error
    \* EnhancedStreamReader around a normalizer, and the store behind it
    variant,        \* "services" | "api" | "none": which EnhancedStreamReader
    esr,            \* its fields: Closed, UsageLogged, InputTokens, OutputTokens, ...
    store,          \* the user's balance, the request log writes, the charge calls
    e_closes,       \* Close calls made on the EnhancedStreamReader
    \* concurrent Handler.Generate requests of one user against the user document
    user,           \* the stored document: Balance, IsActive, and its write count
    h_pc,           \* per request: where Generate is
    h_req,          \* per request: totalCost, the balance read, the transaction's read, status
    requestLogs,    \* requests whose log entry was written
    applied,        \* sum of the amounts of the UpdateUserBalance calls that returned nil
    balance0,       \* the balance the user document started with
    \* one GenerateWithParams call of one LLM adapter
    adapter,        \* which client: "data.openai" | ... | "llm.google" | "none"
    backend,        \* what the provider's API does with the call
    resp,           \* what GenerateWithParams returned: a response or a ProviderError
    \* one request through GenerationService.Generate / GenerateStream
    cfg,            \* entry point, optimizer variant, config.Optimization
    prompt,         \* req.Prompt
    o_pc,           \* "idle" | "start" | "streaming" | "done" | "opt_error" | "gen_error"
    por,            \* promptOptimizationResult of the entry point (NoResult: nil)
    calls,          \* the OptimizePromptWithMode calls made, in order
    sent,           \* the prompt handed to the user's model
    result,         \* what the request reports: result, stream metadata, log entry
    \* the cost of one billed request
    pricing,        \* the pricing_tiers collection and whether its reads succeed
    account,        \* the user document: TierID, CustomPricing
    bill,           \* the request: path, token counts, progress, tier of the request context
    quote,          \* what cost resolution returned
    \* admission and billing of one request
    a_req,          \* the request: layer, path, model
    a_user,         \* the user document and its cached snapshot ("user:<id>")
    a_pc,           \* where the request is
    a_fx,           \* what the request has done: calls made, charge, log, error
    \* one cache and the goroutines working on it
    cacheKind,      \* "services" | "pricing" | "user": which cache this is
    now,            \* the clock
    entry,          \* the cached data: present, loadedAt, lastRefresh
    mu,             \* holder of the write lock of sync.RWMutex, or "none"
    storeRead,      \* goroutines with a store read or iteration in progress
    thr,            \* per goroutine: operation, position, what it observed, result
    \* one request in Handler.AuthMiddleware
    authEnv,        \* the Authorization header and what the stores hold
    auth,           \* the middleware: position, key, user found
    gin,            \* the gin.Context of the request
    \* one streaming request in the HTTP handler
    serve,          \* position, the context the stream was opened under, exits taken
    \* the lock of the services pricing cache and the goroutines using it
    rw,             \* sync.RWMutex: readers holding it, the writer that called Lock, granted
    lk              \* per goroutine: operation, position, read locks it holds

normVars == <<kind, p_n, p_bytes, p_end, lastReport, procReport, buffer, pos, closed, inputTokens,
              outputTokens, usageFound, started, items, errors, doneClosed, g_pc, g_cur,
              c_pc, c_n, ret, delivered, closeCalled, failed>>

streamVars == <<variant, esr, store, e_closes>>

balanceVars == <<user, h_pc, h_req, requestLogs, applied, balance0>>

callVars == <<adapter, backend, resp>>

genVars == <<cfg, prompt, o_pc, por, calls, sent, result>>

costVars == <<pricing, account, bill, quote>>

admitVars == <<a_req, a_user, a_pc, a_fx>>

cacheVars == <<cacheKind, now, entry, mu, storeRead, thr>>

authVars == <<authEnv, auth, gin>>

serveVars == <<serve>>

lockVars == <<rw, lk>>

moreVars == <<authVars, serveVars, lockVars>>

auxVars == <<costVars, admitVars, cacheVars, moreVars>>

vars == <<normVars, streamVars, balanceVars, callVars, genVars, auxVars>>

\* ------------------------------------------------------------------ values
PullKinds == {"openai", "anthropic"}
\* usage reports of a unit: none, all zero, one field zero, and two reports
\* with both fields positive
Usage(p, c) == [has |-> TRUE, p |-> p, c |-> c]
NoUsage == [has |-> FALSE, p |-> 0, c |-> 0]
UsageVals == {NoUsage, Usage(0, 0), Usage(MaxTok, 0), Usage(1, 1), Usage(MaxTok, MaxTok)}
NoUnit == [text |-> <<>>, usage |-> NoUsage]
NoRet == [n |-> 0, err |-> "none"]
NoReader == [Closed |-> FALSE, UsageLogged |-> FALSE, InputTokens |-> 0, OutputTokens |-> 0,
             Accumulated |-> 0, WasOptimized |-> FALSE]
NoCharge == [cost |-> 0, before |-> 0, ok |-> TRUE]
NoStore == [balance |-> 0, logs |-> <<>>, chargeCalls |-> 0, chargesOk |-> 0, last |-> NoCharge]
Reqs == 1..MaxReqs
NoUser == [Balance |-> 0, IsActive |-> TRUE, writes |-> 0]
NoReq == [totalCost |-> 0, balance |-> 0, txBalance |-> 0, txWrites |-> 0, status |-> 0]
\* a stream reader as its constructor leaves it, before the first Read
NewReader ==
    /\ p_n = 0 /\ p_bytes = 0 /\ p_end = "open"
    /\ lastReport = <<0, 0>> /\ procReport = <<0, 0>>
    /\ buffer = <<>> /\ pos = 0 /\ closed = FALSE
    /\ inputTokens = 0 /\ outputTokens = 0 /\ usageFound = FALSE
    /\ started = FALSE /\ items = <<>> /\ errors = <<>> /\ doneClosed = FALSE
    /\ g_pc = "idle" /\ g_cur = NoUnit
    /\ c_pc = "idle" /\ c_n = 0
    /\ ret = NoRet /\ delivered = <<>> /\ closeCalled = FALSE
    /\ failed = FALSE

NoBalance ==
    /\ user = NoUser
    /\ h_pc = [r \in Reqs |-> "idle"]
    /\ h_req = [r \in Reqs |-> NoReq]
    /\ requestLogs = {}
    /\ applied = 0
    /\ balance0 = user.Balance

\* a text of n tokens; tokens carry no content
Tokens(n) == [i \in 1..n |-> "tok"]
\* the provider's API before any call, and GenerateWithParams before it returned
NoBackend == [hasPrompt |-> TRUE, prompt |-> <<>>, clientFails |-> FALSE, fails |-> FALSE,
              status |-> 0, choices |-> FALSE, text |-> <<>>, usage |-> NoUsage,
              encoding |-> TRUE]
NoResp == [done |-> FALSE, err |-> FALSE, Retryable |-> FALSE, StatusCode |-> 0,
           InputTokens |-> 0, OutputTokens |-> 0, Text |-> <<>>]
NoCall ==
    /\ adapter = "none"
    /\ backend = NoBackend
    /\ resp = NoResp

\* a prompt: its length in bytes, and how many of them the rule-based pass removes
Text(len, fluff) == [len |-> len, fluff |-> fluff]
NoText == Text(0, 0)
\* a nil *OptimizationResult
NoResult == [nil |-> TRUE, OriginalText |-> NoText, OptimizedText |-> NoText,
             OptimizationType |-> "", WasOptimized |-> FALSE, FallbackReason |-> "",
             OriginalTokens |-> 0, OptimizedTokens |-> 0, TokensSaved |-> 0,
             Gemma3InputTokens |-> 0]
NoCfg == [entry |-> "none", optimizer |-> "none", Enabled |-> FALSE,
          FallbackOnOptimizationFailure |-> FALSE]
\* what a request reports before it has reported anything
NoReport == [WasOptimized |-> FALSE, OptimizationStatus |-> "", FallbackReason |-> "",
             OptimizationType |-> "", InputTokensSaved |-> 0, OutputTokensSaved |-> 0,
             TotalTokensSaved |-> 0, logged |-> FALSE, TokensSaved |-> 0,
             SavingsAmount |-> 0, UserModelInputTokens |-> 0, Gemma3InputTokens |-> 0]
NoGen ==
    /\ cfg = NoCfg
    /\ prompt = NoText
    /\ o_pc = "idle"
    /\ por = NoResult
    /\ calls = <<>>
    /\ sent = NoText
    /\ result = NoReport

\* a per-model price pair, in USD per million tokens; has: the entry exists
Price(in, out) == [has |-> TRUE, in |-> in, out |-> out]
NoPrice == [has |-> FALSE, in |-> 0, out |-> 0]
\* a pricing tier; Override is CustomModelPricing[modelID] for the model billed
Tier(id, spend, inMarkup, outMarkup, active, custom, override) ==
    [ID |-> id, MinMonthlySpend |-> spend, InputMarkupPercent |-> inMarkup,
     OutputMarkupPercent |-> outMarkup, IsActive |-> active, IsCustom |-> custom,
     Override |-> override]
NoTier == Tier("", 0, 0, 0, FALSE, FALSE, NoPrice)
NoPricing == [tiers |-> <<>>, getOk |-> TRUE, queryOk |-> TRUE]
NoAccount == [TierID |-> "", CustomPricing |-> FALSE]
NoBill == [path |-> "none", inTok |-> 0, outTok |-> 0, pc |-> "idle", tier |-> NoTier]
NoCostResult == [done |-> FALSE, err |-> FALSE, total |-> 0, markup |-> 0,
                 inputPrice |-> 0, outputPrice |-> 0, tier |-> NoTier]
NoCost ==
    /\ pricing = NoPricing
    /\ account = NoAccount
    /\ bill = NoBill
    /\ quote = NoCostResult

\* a cached user snapshot (CachedUserData); state: "miss" | "valid" | "expired"
Snapshot(state, active, balance) == [state |-> state, IsActive |-> active, Balance |-> balance]
NoSnapshot == Snapshot("miss", FALSE, 0)
NoEffects == [optimizer |-> 0, backend |-> 0, charged |-> FALSE, logged |-> FALSE,
              err |-> "none"]
NoAdmit ==
    /\ a_req = [layer |-> "none", path |-> "none", model |-> ""]
    /\ a_user = [IsActive |-> FALSE, Balance |-> 0, cache |-> NoSnapshot]
    /\ a_pc = "idle"
    /\ a_fx = NoEffects

NoEntry == [present |-> FALSE, loadedAt |-> 0, lastRefresh |-> 0]
NoThread == [op |-> "none", pc |-> "idle", hadEntry |-> FALSE, age |-> 0,
             expired |-> FALSE, triggered |-> FALSE, storeErr |-> FALSE, ret |-> -1]
NoCache ==
    /\ cacheKind = "none"
    /\ now = 0
    /\ entry = NoEntry
    /\ mu = "none"
    /\ storeRead = {}
    /\ thr = <<>>

\* gin.Context of a request: Keys, the abort flag, the status written, and
\* whether the downstream handler ran
NoGin == [keys |-> <<>>, aborted |-> FALSE, status |-> 0, reached |-> FALSE]
NoAuthEnv == [bearer |-> FALSE, token |-> "", docs |-> {}, tierOk |-> FALSE]
NoAuthState == [pc |-> "idle", apiKey |-> "", user |-> "none", lookupFailed |-> FALSE,
                seen |-> "none"]
NoAuth ==
    /\ authEnv = NoAuthEnv
    /\ auth = NoAuthState
    /\ gin = NoGin

NoServe == [pc |-> "idle", ctx |-> "none", handed |-> FALSE, writeFailed |-> FALSE]

\* sync.RWMutex, unlocked
NoRW == [readerCount |-> 0, writer |-> "none", granted |-> FALSE]
NoLock ==
    /\ rw = NoRW
    /\ lk = <<>>

NoMore ==
    /\ NoAuth
    /\ serve = NoServe
    /\ NoLock

NoAux ==
    /\ NoCost
    /\ NoAdmit
    /\ NoCache
    /\ NoMore

Min(a, b) == IF a < b THEN a ELSE b

\* The next unit of the backend: a text delta of len bytes, numbered on from the
\* bytes produced so far, and an optional usage report.
MkUnit(len, u) == [text |-> [i \in 1..len |-> p_bytes + i], usage |-> u]

NonZero(u) == u.has /\ (u.p > 0 \/ u.c > 0)

\* copy that always starts at the head of the buffer, ignoring the position
CopyFromStart(buf, at, n) == SubSeq(buf, 1, Min(n, Len(buf)))

\* copy(p, r.buffer[r.pos:]) with len(p) = n
Copy(buf, at, n) == SubSeq(buf, at + 1, Min(at + n, Len(buf)))

\* ------------------------------------------------------------------ usage latches
\* A latch state is [in, out, found]; each operator is one unit's effect on it.
OpenAILatch(l, u) ==
    IF ~l.found /\ (u.p > 0 \/ u.c > 0)
    THEN [in |-> u.p, out |-> u.c, found |-> TRUE]
    ELSE l

AnthropicLatch(l, u) ==
    IF ~l.found /\ u.has
    THEN [in |-> u.p, out |-> u.c, found |-> (u.p > 0 \/ u.c > 0)]
    ELSE l

\* first block of GoogleStreamReader.Read; the second block repeats it for a
\* unit with no content parts
GoogleLatchFirst(l, u) ==
    IF ~l.found /\ u.has
    THEN [in |-> u.p, out |-> u.c, found |-> (u.p > 0 \/ u.c > 0)]
    ELSE l

GoogleLatchAlways(l, u) ==
    IF u.has /\ (~l.found \/ (u.p > 0 /\ u.c > 0))
    THEN [in |-> u.p, out |-> u.c, found |-> TRUE]
    ELSE l

GoogleLatch(l, unit) ==
    LET l1 == GoogleLatchFirst(l, unit.usage)
        l2 == IF unit.text = <<>> THEN GoogleLatchFirst(l1, unit.usage) ELSE l1
    IN GoogleLatchAlways(l2, unit.usage)

Latch == [in |-> inputTokens, out |-> outputTokens, found |-> usageFound]

SetLatch(l) ==
    /\ inputTokens' = l.in
    /\ outputTokens' = l.out
    /\ usageFound' = l.found

\* GetUsage() of every normalizer
GetUsage == <<inputTokens, outputTokens>>

\* ------------------------------------------------------------------ backend
\* The backend yields its next unit: what it does to the provider-side history.
Produce(unit) ==
    /\ p_n' = p_n + 1
    /\ p_bytes' = p_bytes + Len(unit.text)
    /\ lastReport' = IF NonZero(unit.usage) THEN <<unit.usage.p, unit.usage.c>> ELSE lastReport

\* The normalizer has processed a unit: the history of what it was shown.
Processed(unit) ==
    procReport' = IF NonZero(unit.usage) THEN <<unit.usage.p, unit.usage.c>> ELSE procReport

\* ------------------------------------------------------------------ Read, shared parts
\* "if r.pos < len(r.buffer)": hand out buffered bytes
ReadBuffered(n) ==
    LET out == Copy(buffer, pos, n)
        np == pos + Len(out)
    IN /\ pos < Len(buffer)
       /\ buffer' = IF np >= Len(buffer) THEN <<>> ELSE buffer
       /\ pos' = IF np >= Len(buffer) THEN 0 ELSE np
       /\ ret' = [n |-> Len(out), err |-> "nil"]
       /\ delivered' = delivered \o out

\* a unit's text becomes the buffer and its first bytes are returned
ReadContent(text, n) ==
    IF text = <<>>
    THEN /\ ret' = [n |-> 0, err |-> "nil"]
         /\ UNCHANGED <<buffer, pos, delivered>>
    ELSE LET out == Copy(text, 0, n)
         IN /\ buffer' = IF Len(out) >= Len(text) THEN <<>> ELSE text
            /\ pos' = IF Len(out) >= Len(text) THEN 0 ELSE Len(out)
            /\ ret' = [n |-> Len(out), err |-> "nil"]
            /\ delivered' = delivered \o out

googleVars == <<started, items, errors, doneClosed, g_pc, g_cur, c_pc, c_n>>

\* ------------------------------------------------------------------ OpenAI / Anthropic
PullLatch(l, u) == IF kind = "openai" THEN OpenAILatch(l, u) ELSE AnthropicLatch(l, u)

\* Read on a closed reader
PullReadClosed ==
    /\ kind \in PullKinds
    /\ closed
    /\ ret' = [n |-> 0, err |-> "EOF"]
    /\ UNCHANGED <<kind, failed, p_n, p_bytes, p_end, lastReport, procReport, buffer, pos, closed,
                   inputTokens, outputTokens, usageFound, delivered, closeCalled, googleVars>>

PullReadBuffered ==
    /\ kind \in PullKinds
    /\ ~closed
    /\ \E n \in 1..MaxBuf : ReadBuffered(n)
    /\ UNCHANGED <<kind, failed, p_n, p_bytes, p_end, lastReport, procReport, closed, inputTokens,
                   outputTokens, usageFound, closeCalled, googleVars>>

\* stream.Next() returned true: Current() is the next unit
PullReadUnit ==
    /\ kind \in PullKinds
    /\ ~closed
    /\ pos >= Len(buffer)
    /\ p_end = "open"
    /\ p_n < MaxUnits
    /\ \E len \in 0..MaxChunk, u \in UsageVals, n \in 1..MaxBuf :
         LET unit == MkUnit(len, u)
         IN /\ Produce(unit)
            /\ Processed(unit)
            /\ SetLatch(PullLatch(Latch, unit.usage))
            /\ ReadContent(unit.text, n)
    /\ UNCHANGED <<kind, failed, p_end, closed, closeCalled, googleVars>>

\* stream.Next() returned false: Err() decides between the error and EOF
PullReadEnd ==
    /\ kind \in PullKinds
    /\ ~closed
    /\ pos >= Len(buffer)
    /\ p_end = "open"
    /\ \E e \in {"eof", "error"} :
         /\ p_end' = e
         /\ ret' = [n |-> 0, err |-> IF e = "eof" THEN "EOF" ELSE "error"]
         /\ failed' = (failed \/ e = "error")
    /\ closed' = TRUE
    /\ UNCHANGED <<kind, p_n, p_bytes, lastReport, procReport, buffer, pos, inputTokens,
                   outputTokens, usageFound, delivered, closeCalled, googleVars>>

PullClose ==
    /\ kind \in PullKinds
    /\ closed' = TRUE
    /\ closeCalled' = TRUE
    /\ UNCHANGED <<kind, failed, p_n, p_bytes, p_end, lastReport, procReport, buffer, pos,
                   inputTokens, outputTokens, usageFound, ret, delivered, googleVars>>


\* ------------------------------------------------------------------ Google
normFields == <<buffer, pos, inputTokens, outputTokens, usageFound>>
provider == <<p_n, p_bytes, p_end, lastReport, procReport>>

\* Read on a closed reader
GReadClosed ==
    /\ kind = "google" /\ c_pc = "idle"
    /\ closed
    /\ ret' = [n |-> 0, err |-> "EOF"]
    /\ UNCHANGED <<kind, failed, provider, normFields, closed, delivered, closeCalled, googleVars>>

\* first Read: make the channels and start the bridging goroutine, then go on
\* to the buffer check and the select
GReadStart ==
    /\ kind = "google" /\ c_pc = "idle"
    /\ ~closed
    /\ ~started
    /\ started' = TRUE
    /\ g_pc' = "iter"
    /\ c_pc' = "select"
    /\ \E n \in 1..MaxBuf : c_n' = n
    /\ UNCHANGED <<kind, failed, provider, normFields, closed, ret, delivered, closeCalled,
                   items, errors, doneClosed, g_cur>>

GReadBuffered ==
    /\ kind = "google" /\ c_pc = "idle"
    /\ ~closed
    /\ started
    /\ \E n \in 1..MaxBuf : ReadBuffered(n)
    /\ UNCHANGED <<kind, failed, provider, closed, inputTokens, outputTokens, usageFound,
                   closeCalled, googleVars>>

\* nothing buffered: block in the select over items, errors and done
GReadWait ==
    /\ kind = "google" /\ c_pc = "idle"
    /\ ~closed
    /\ started
    /\ pos >= Len(buffer)
    /\ c_pc' = "select"
    /\ \E n \in 1..MaxBuf : c_n' = n
    /\ UNCHANGED <<kind, failed, provider, normFields, closed, ret, delivered, closeCalled,
                   started, items, errors, doneClosed, g_pc, g_cur>>

\* case resp := <-r.items
GSelectItem ==
    /\ kind = "google" /\ c_pc = "select"
    /\ items # <<>>
    /\ LET unit == Head(items)
       IN /\ SetLatch(GoogleLatch(Latch, unit))
          /\ Processed(unit)
          /\ ReadContent(unit.text, c_n)
    /\ items' = Tail(items)
    /\ c_pc' = "idle"
    /\ UNCHANGED <<kind, failed, p_n, p_bytes, p_end, lastReport, closed, closeCalled, started, errors, doneClosed,
                   g_pc, g_cur, c_n>>

\* the error case without r.closed = true
GSelectErrStaysOpen ==
    /\ kind = "google" /\ c_pc = "select"
    /\ errors # <<>>
    /\ errors' = Tail(errors)
    /\ ret' = [n |-> 0, err |-> "error"]
    /\ failed' = TRUE
    /\ c_pc' = "idle"
    /\ UNCHANGED <<kind, provider, normFields, closed, delivered, closeCalled, started, items,
                   doneClosed, g_pc, g_cur, c_n>>

\* case err := <-r.errors
GSelectErr ==
    /\ kind = "google" /\ c_pc = "select"
    /\ errors # <<>>
    /\ errors' = Tail(errors)
    /\ closed' = TRUE
    /\ ret' = [n |-> 0, err |-> "error"]
    /\ failed' = TRUE
    /\ c_pc' = "idle"
    /\ UNCHANGED <<kind, provider, normFields, delivered, closeCalled, started, items,
                   doneClosed, g_pc, g_cur, c_n>>

\* case <-r.done
GSelectDone ==
    /\ kind = "google" /\ c_pc = "select"
    /\ doneClosed
    /\ closed' = TRUE
    /\ ret' = [n |-> 0, err |-> "EOF"]
    /\ c_pc' = "idle"
    /\ UNCHANGED <<kind, failed, provider, normFields, delivered, closeCalled, started, items,
                   errors, doneClosed, g_pc, g_cur, c_n>>

\* Close: r.closed = true, then the select on r.done with a default branch.
\* The default branch falls through to close(r.done), a separate step.
GClose ==
    /\ kind = "google" /\ c_pc = "idle"
    /\ closed' = TRUE
    /\ closeCalled' = TRUE
    /\ c_pc' = IF started /\ ~doneClosed THEN "close_do" ELSE "idle"
    /\ UNCHANGED <<kind, failed, provider, normFields, ret, delivered, started, items, errors,
                   doneClosed, g_pc, g_cur, c_n>>

\* close(r.done) of Close's default branch: closing a closed channel panics
GCloseDo ==
    /\ kind = "google" /\ c_pc = "close_do"
    /\ doneClosed' = TRUE
    /\ c_pc' = IF doneClosed THEN "panicked" ELSE "idle"
    /\ UNCHANGED <<kind, failed, provider, normFields, closed, ret, delivered, closeCalled,
                   started, items, errors, g_pc, g_cur, c_n>>

\* the iterator asks the backend for its next unit and calls yield with it
GFetchUnit ==
    /\ kind = "google" /\ g_pc = "iter"
    /\ p_end = "open"
    /\ p_n < MaxUnits
    /\ \E len \in 0..MaxChunk, u \in UsageVals :
         LET unit == MkUnit(len, u)
         IN /\ Produce(unit)
            /\ g_cur' = unit
    /\ g_pc' = "send_item"
    /\ UNCHANGED <<kind, failed, p_end, procReport, normFields, closed, ret, delivered, closeCalled, started,
                   items, errors, doneClosed, c_pc, c_n>>

\* the backend ends the stream: the iterator returns, or yields its error
GFetchEnd ==
    /\ kind = "google" /\ g_pc = "iter"
    /\ p_end = "open"
    /\ \E e \in {"eof", "error"} :
         /\ p_end' = e
         /\ g_pc' = IF e = "eof" THEN "defer" ELSE "send_err"
    /\ UNCHANGED <<kind, failed, p_n, p_bytes, lastReport, procReport, normFields, closed, ret,
                   delivered, closeCalled, started, items, errors, doneClosed, g_cur,
                   c_pc, c_n>>

\* yield, item case: select { case r.items <- resp: case <-r.done: }; return true
GSendItem ==
    /\ kind = "google" /\ g_pc = "send_item"
    /\ \/ /\ Len(items) < 1
          /\ items' = Append(items, g_cur)
       \/ /\ doneClosed
          /\ items' = items
    /\ g_pc' = "iter"
    /\ g_cur' = NoUnit
    /\ UNCHANGED <<kind, failed, provider, normFields, closed, ret, delivered, closeCalled,
                   started, errors, doneClosed, c_pc, c_n>>

\* yield, error case: select { case r.errors <- err: case <-r.done: }; return false
GSendErr ==
    /\ kind = "google" /\ g_pc = "send_err"
    /\ \/ /\ Len(errors) < 1
          /\ errors' = Append(errors, "error")
       \/ /\ doneClosed
          /\ errors' = errors
    /\ g_pc' = "defer"
    /\ UNCHANGED <<kind, failed, provider, normFields, closed, ret, delivered, closeCalled,
                   started, items, doneClosed, g_cur, c_pc, c_n>>

\* defer close(r.done): closing a closed channel panics
GDeferClose ==
    /\ kind = "google" /\ g_pc = "defer"
    /\ doneClosed' = TRUE
    /\ g_pc' = IF doneClosed THEN "panicked" ELSE "exited"
    /\ UNCHANGED <<kind, failed, provider, normFields, closed, ret, delivered, closeCalled,
                   started, items, errors, g_cur, c_pc, c_n>>

\* ------------------------------------------------------------------ pricing and store
\* ModelConfig prices per million tokens (USD) and the tier's markup percents
InputPricePerMillion == 2
OutputPricePerMillion == 8
TierMarkup == [InputMarkupPercent |-> 10, OutputMarkupPercent |-> 10]
Balances == {0, 500, 3000}

\* EnhancedStreamReader.calculateActualCost, in units of 1e-8 USD: costs are
\* tokens * price / 1e6 USD, a markup is cost * percent / 100
CalculateActualCost(inTok, outTok) ==
    LET inputCost == inTok * InputPricePerMillion
        outputCost == outTok * OutputPricePerMillion
        baseCost == inputCost + outputCost
        inputMarkup == inputCost * TierMarkup.InputMarkupPercent
        outputMarkup == outputCost * TierMarkup.OutputMarkupPercent
        totalMarkup == inputMarkup + outputMarkup
    IN baseCost * 100 + totalMarkup

\* Service.UpdateUserBalance: the transaction adds the amount and refuses a
\* balance below zero
UpdateUserBalance(balance, amount) ==
    LET newBalance == balance + amount
    IN IF newBalance < 0
       THEN [ok |-> FALSE, balance |-> balance]
       ELSE [ok |-> TRUE, balance |-> newBalance]

\* Service.LogRequest: Doc(log.ID).Set(log)
LogRequest(st, log) == [st EXCEPT !.logs = Append(@, log)]

\* EnhancedStreamReader.logStreamingRequest: the services reader uses the
\* request id as the document id (id 0 here), the api reader a fresh
\* req_<nanoseconds> id for every call
LogStreamingRequest(st, v, r, cost) ==
    LogRequest(st, [id |-> IF v = "services" THEN 0 ELSE Len(st.logs) + 1,
                    cost |-> cost,
                    InputTokens |-> r.InputTokens,
                    OutputTokens |-> r.OutputTokens,
                    status |-> "success"])

\* EnhancedStreamReader.chargeUser: the error of UpdateUserBalance is only logged
ChargeUser(st, cost) ==
    LET u == UpdateUserBalance(st.balance, 0 - cost)
    IN [st EXCEPT !.balance = u.balance,
                  !.chargeCalls = @ + 1,
                  !.chargesOk = IF u.ok THEN @ + 1 ELSE @,
                  !.last = [cost |-> cost, before |-> st.balance, ok |-> u.ok]]

\* ------------------------------------------------------------------ EnhancedStreamReader
\* logUsage of the services reader; usage is GetUsage() of the original stream
LogUsageServices(r, st, usage) ==
    LET r1 == IF usage[1] > 0 \/ usage[2] > 0
              THEN [r EXCEPT !.InputTokens = usage[1], !.OutputTokens = usage[2]]
              ELSE r
        cost == CalculateActualCost(r1.InputTokens, r1.OutputTokens)
    IN IF r1.WasOptimized /\ r1.InputTokens = 0
       THEN [r |-> r1, st |-> st]
       ELSE [r |-> [r1 EXCEPT !.UsageLogged = TRUE],
             st |-> ChargeUser(LogStreamingRequest(st, "services", r1, cost), cost)]

\* logUsage of the api reader; counted is what CountTokens made of the
\* accumulated content (0 when the temporary client or the count failed)
LogUsageApi(r, st, counted) ==
    LET r1 == [r EXCEPT !.OutputTokens = counted]
        cost == CalculateActualCost(r1.InputTokens, r1.OutputTokens)
    IN [r |-> r1,
        st |-> ChargeUser(LogStreamingRequest(st, "api", r1, cost), cost)]

\* the results CountTokens can give for the accumulated content
Counts(r) == {0, r.Accumulated}

\* what the readers do once the original stream's Read has returned rt
AfterReadServices(r, st, rt) ==
    LET r1 == [r EXCEPT !.Accumulated = @ + rt.n]
    IN [r |-> IF rt.err = "EOF" /\ ~r1.UsageLogged
              THEN [r1 EXCEPT !.UsageLogged = TRUE]
              ELSE r1,
        st |-> st]

AfterReadApi(r, st, rt, counted) ==
    LET r1 == [r EXCEPT !.Accumulated = @ + rt.n]
    IN IF rt.err = "EOF" /\ ~r1.UsageLogged
       THEN LET l == LogUsageApi(r1, st, counted)
            IN [r |-> [l.r EXCEPT !.UsageLogged = TRUE], st |-> l.st]
       ELSE [r |-> r1, st |-> st]

\* Read on a closed EnhancedStreamReader: EOF without touching the original
EnhReadClosed ==
    /\ variant # "none"
    /\ esr.Closed
    /\ ret' = [n |-> 0, err |-> "EOF"]
    /\ UNCHANGED <<kind, failed, provider, normFields, closed, delivered, closeCalled, googleVars,
                   variant, esr, store, e_closes, balanceVars, callVars, genVars, auxVars>>

\* Read: the original stream's Read, then the bookkeeping
EnhRead ==
    /\ variant # "none"
    /\ ~esr.Closed
    /\ \/ PullReadClosed
       \/ PullReadBuffered
       \/ PullReadUnit
       \/ PullReadEnd
    /\ \E counted \in Counts([esr EXCEPT !.Accumulated = @ + ret'.n]) :
         LET a == IF variant = "services"
                  THEN AfterReadServices(esr, store, ret')
                  ELSE AfterReadApi(esr, store, ret', counted)
         IN /\ esr' = a.r
            /\ store' = a.st
    /\ UNCHANGED <<variant, e_closes, balanceVars, callVars, genVars, auxVars>>

\* Close: mark closed, meter unless the usage is already logged, close the original
EnhClose ==
    /\ variant # "none"
    /\ e_closes < MaxCloses
    /\ e_closes' = e_closes + 1
    /\ PullClose
    /\ \E counted \in Counts(esr) :
         LET r0 == [esr EXCEPT !.Closed = TRUE]
             l == IF r0.UsageLogged THEN [r |-> r0, st |-> store]
                  ELSE IF variant = "services"
                       THEN LogUsageServices(r0, store, GetUsage)
                       ELSE LogUsageApi(r0, store, counted)
         IN /\ esr' = l.r
            /\ store' = l.st
    /\ UNCHANGED <<variant, balanceVars, callVars, genVars, auxVars>>

StreamInit ==
    /\ kind \in PullKinds
    /\ NewReader
    /\ variant \in {"services", "api"}
    /\ \E opt \in BOOLEAN, est \in {0, 1} :
         /\ variant = "api" => ~opt
         /\ variant = "services" => est = 0
         /\ esr = [NoReader EXCEPT !.WasOptimized = opt, !.InputTokens = est]
    /\ \E b \in Balances : store = [NoStore EXCEPT !.balance = b]
    /\ e_closes = 0
    /\ NoBalance
    /\ NoCall
    /\ NoGen
    /\ NoAux

StreamNext ==
    \/ EnhReadClosed
    \/ EnhRead
    \/ EnhClose

SpecStream == StreamInit /\ [][StreamNext]_vars

\* ------------------------------------------------------------------ Handler.Generate and the balance
\* Service.CalculateCost: the total cost with the tier's markup, in 1e-8 USD
CalculateCost(inTok, outTok) ==
    LET inputCost == inTok * InputPricePerMillion
        outputCost == outTok * OutputPricePerMillion
        baseCost == inputCost + outputCost
        inputMarkup == inputCost * TierMarkup.InputMarkupPercent
        outputMarkup == outputCost * TierMarkup.OutputMarkupPercent
        totalMarkup == inputMarkup + outputMarkup
    IN baseCost * 100 + totalMarkup

\* GenerationService.checkUserBalance: only an inactive account stops a request
CheckUserBalance(u) == [canProceed |-> u.IsActive, balance |-> u.Balance]

\* Service.GetUserBalance: a plain read of the user document
GetUserBalance(u) == u.Balance

\* the handler's balance test before it responds
InsufficientBalance(balance, totalCost) == balance < totalCost

SetReq(r, pc, rec) ==
    /\ h_pc' = [h_pc EXCEPT ![r] = pc]
    /\ h_req' = [h_req EXCEPT ![r] = rec]

\* generationService.Generate: the service checks the account, the backend
\* answers with some usage, and the handler prices it
HGenerate(r) ==
    /\ h_pc[r] = "idle"
    /\ IF ~CheckUserBalance(user).canProceed
       THEN SetReq(r, "done", [h_req[r] EXCEPT !.status = 500])
       ELSE \E inTok \in 0..MaxTok, outTok \in 0..MaxTok :
              SetReq(r, "balance", [h_req[r] EXCEPT !.totalCost = CalculateCost(inTok, outTok)])
    /\ UNCHANGED <<normVars, streamVars, callVars, genVars, auxVars, user, requestLogs, applied, balance0>>

\* balance, err := h.firebaseService.GetUserBalance(...)
HGetUserBalance(r) ==
    /\ h_pc[r] = "balance"
    /\ SetReq(r, "gate", [h_req[r] EXCEPT !.balance = GetUserBalance(user)])
    /\ UNCHANGED <<normVars, streamVars, callVars, genVars, auxVars, user, requestLogs, applied, balance0>>

\* if balance < totalCost: 402 Payment Required
HGate(r) ==
    /\ h_pc[r] = "gate"
    /\ IF InsufficientBalance(h_req[r].balance, h_req[r].totalCost)
       THEN SetReq(r, "done", [h_req[r] EXCEPT !.status = 402])
       ELSE SetReq(r, "log", h_req[r])
    /\ UNCHANGED <<normVars, streamVars, callVars, genVars, auxVars, user, requestLogs, applied, balance0>>

\* h.logRequest(...): the write to request_logs may fail, and the error is
\* only logged
HLogRequest(r) ==
    /\ h_pc[r] = "log"
    /\ \E written \in BOOLEAN :
         requestLogs' = IF written THEN requestLogs \cup {r} ELSE requestLogs
    /\ SetReq(r, "txGet", h_req[r])
    /\ UNCHANGED <<normVars, streamVars, callVars, genVars, auxVars, user, applied, balance0>>

\* UpdateUserBalance, inside RunTransaction: tx.Get(userRef)
TxGet(r) ==
    /\ h_pc[r] = "txGet"
    /\ SetReq(r, "txSet", [h_req[r] EXCEPT !.txBalance = user.Balance, !.txWrites = user.writes])
    /\ UNCHANGED <<normVars, streamVars, callVars, genVars, auxVars, user, requestLogs, applied, balance0>>

\* UpdateUserBalance, inside RunTransaction: the arithmetic, the negative
\* test, tx.Set and the commit. A commit whose read is stale makes
\* RunTransaction run the function again; an error of the function ends the
\* call, and the handler answers 500.
TxSet(r) ==
    /\ h_pc[r] = "txSet"
    /\ LET u == UpdateUserBalance(h_req[r].txBalance, 0 - h_req[r].totalCost)
       IN IF ~u.ok
          THEN /\ SetReq(r, "done", [h_req[r] EXCEPT !.status = 500])
               /\ UNCHANGED <<user, applied>>
          ELSE IF user.writes # h_req[r].txWrites
          THEN /\ SetReq(r, "txGet", h_req[r])
               /\ UNCHANGED <<user, applied>>
          ELSE /\ user' = [user EXCEPT !.Balance = u.balance, !.writes = @ + 1]
               /\ applied' = applied - h_req[r].totalCost
               /\ SetReq(r, "done", [h_req[r] EXCEPT !.status = 200])
    /\ UNCHANGED <<normVars, streamVars, callVars, genVars, auxVars, requestLogs, balance0>>

BalanceInit ==
    /\ kind = "none"
    /\ NewReader
    /\ variant = "none" /\ esr = NoReader /\ store = NoStore /\ e_closes = 0
    /\ \E b \in Balances, act \in BOOLEAN : user = [NoUser EXCEPT !.Balance = b, !.IsActive = act]
    /\ h_pc = [r \in Reqs |-> "idle"]
    /\ h_req = [r \in Reqs |-> NoReq]
    /\ requestLogs = {}
    /\ applied = 0
    /\ balance0 = user.Balance
    /\ NoCall
    /\ NoGen
    /\ NoAux

BalanceNext ==
    \/ \E r \in Reqs : HGenerate(r)
    \/ \E r \in Reqs : HGetUserBalance(r)
    \/ \E r \in Reqs : HGate(r)
    \/ \E r \in Reqs : HLogRequest(r)
    \/ \E r \in Reqs : TxGet(r)
    \/ \E r \in Reqs : TxSet(r)

SpecBalance == BalanceInit /\ [][BalanceNext]_vars

\* ------------------------------------------------------------------ specification
NormInit ==
    /\ kind \in PullKinds \cup {"google"}
    /\ NewReader
    /\ variant = "none" /\ esr = NoReader /\ store = NoStore /\ e_closes = 0
    /\ NoBalance
    /\ NoCall
    /\ NoGen
    /\ NoAux

NormNext ==
    \/ PullReadClosed /\ UNCHANGED <<streamVars, balanceVars, callVars, genVars, auxVars>>
    \/ PullReadBuffered /\ UNCHANGED <<streamVars, balanceVars, callVars, genVars, auxVars>>
    \/ PullReadUnit /\ UNCHANGED <<streamVars, balanceVars, callVars, genVars, auxVars>>
    \/ PullReadEnd /\ UNCHANGED <<streamVars, balanceVars, callVars, genVars, auxVars>>
    \/ PullClose /\ UNCHANGED <<streamVars, balanceVars, callVars, genVars, auxVars>>
    \/ GReadClosed /\ UNCHANGED <<streamVars, balanceVars, callVars, genVars, auxVars>>
    \/ GReadStart /\ UNCHANGED <<streamVars, balanceVars, callVars, genVars, auxVars>>
    \/ GReadBuffered /\ UNCHANGED <<streamVars, balanceVars, callVars, genVars, auxVars>>
    \/ GReadWait /\ UNCHANGED <<streamVars, balanceVars, callVars, genVars, auxVars>>
    \/ GSelectItem /\ UNCHANGED <<streamVars, balanceVars, callVars, genVars, auxVars>>
    \/ GSelectErr /\ UNCHANGED <<streamVars, balanceVars, callVars, genVars, auxVars>>
    \/ GSelectDone /\ UNCHANGED <<streamVars, balanceVars, callVars, genVars, auxVars>>
    \/ GClose /\ UNCHANGED <<streamVars, balanceVars, callVars, genVars, auxVars>>
    \/ GCloseDo /\ UNCHANGED <<streamVars, balanceVars, callVars, genVars, auxVars>>
    \/ GFetchUnit /\ UNCHANGED <<streamVars, balanceVars, callVars, genVars, auxVars>>
    \/ GFetchEnd /\ UNCHANGED <<streamVars, balanceVars, callVars, genVars, auxVars>>
    \/ GSendItem /\ UNCHANGED <<streamVars, balanceVars, callVars, genVars, auxVars>>
    \/ GSendErr /\ UNCHANGED <<streamVars, balanceVars, callVars, genVars, auxVars>>
    \/ GDeferClose /\ UNCHANGED <<streamVars, balanceVars, callVars, genVars, auxVars>>

SpecNorm == NormInit /\ [][NormNext]_vars

\* The Go scheduler runs the bridging goroutine and lets a Close call finish; the
\* backend keeps answering until the stream ends.
FairSpecNorm ==
    /\ SpecNorm
    /\ WF_vars((GFetchUnit \/ GFetchEnd) /\ UNCHANGED <<streamVars, balanceVars, callVars, genVars, auxVars>>)
    /\ WF_vars(GSendItem /\ UNCHANGED <<streamVars, balanceVars, callVars, genVars, auxVars>>)
    /\ WF_vars(GSendErr /\ UNCHANGED <<streamVars, balanceVars, callVars, genVars, auxVars>>)
    /\ WF_vars(GDeferClose /\ UNCHANGED <<streamVars, balanceVars, callVars, genVars, auxVars>>)
    /\ WF_vars(GCloseDo /\ UNCHANGED <<streamVars, balanceVars, callVars, genVars, auxVars>>)

\* ------------------------------------------------------------------ LLM adapters
\* The six clients: package data (OpenAI, Anthropic, Google) and package llm.
DataAdapters == {"data.openai", "data.anthropic", "data.google"}
LlmAdapters == {"llm.openai", "llm.anthropic", "llm.google"}
Adapters == DataAdapters \cup LlmAdapters
OpenAIAdapters == {"data.openai", "llm.openai"}
GoogleAdapters == {"data.google", "llm.google"}

\* status carried by a failed API call; 0: the error is not the SDK's API error type
Statuses == {0, 99, 400, 401, 402, 403, 404, 429, 500, 599, 600}
NoRetryStatuses == {401, 402, 403, 404, 429}

\* what the provider's API can do with one call
Backends ==
    {[NoBackend EXCEPT !.hasPrompt = FALSE]}
    \cup {[NoBackend EXCEPT !.prompt = Tokens(1), !.clientFails = TRUE]}
    \cup {[NoBackend EXCEPT !.prompt = Tokens(pn), !.fails = TRUE, !.status = st] :
             pn \in 1..MaxTok, st \in Statuses}
    \cup {[NoBackend EXCEPT !.prompt = Tokens(pn), !.choices = ch, !.text = Tokens(n),
                            !.usage = u, !.encoding = enc] :
             pn \in 1..MaxTok, ch \in BOOLEAN, n \in 0..MaxTok, u \in UsageVals,
             enc \in BOOLEAN}

ProviderError(retryable, statusCode) ==
    [NoResp EXCEPT !.done = TRUE, !.err = TRUE, !.Retryable = retryable,
                   !.StatusCode = statusCode]

\* the status code the adapter reads off the error of a failed API call
StatusCode(a, raw) ==
    CASE a = "data.openai" -> raw
      [] a = "data.google" -> IF raw < 100 \/ raw > 599 THEN 0 ELSE raw
      [] OTHER -> 0

\* retryable of the ProviderError for a failed API call
Retryable(a, statusCode) ==
    IF a \in {"data.openai", "data.google"}
    THEN IF statusCode \in NoRetryStatuses THEN FALSE
         ELSE IF statusCode >= 500 /\ statusCode < 600 THEN TRUE
         ELSE TRUE
    ELSE TRUE

\* responseText of a call the API answered
ResponseText(a, b) ==
    IF a \in OpenAIAdapters THEN b.text
    ELSE IF b.choices THEN b.text ELSE <<>>

\* "no choices returned" / "no content returned"
NoContent(a, b) ==
    IF a \in OpenAIAdapters THEN ~b.choices
    ELSE ResponseText(a, b) = <<>>

\* tiktoken cl100k_base: the number of tokens of a text, 0 when the encoding fails
CountTokens(b, text) == IF b.encoding THEN Len(text) ELSE 0

\* inputTokens, outputTokens of the response
TokenCounts(a, b) ==
    IF a \in DataAdapters
    THEN IF b.usage.has /\ (b.usage.p > 0 \/ b.usage.c > 0)
         THEN <<b.usage.p, b.usage.c>>
         ELSE <<0, 0>>
    ELSE <<CountTokens(b, b.prompt), CountTokens(b, ResponseText(a, b))>>

GenerateWithParamsOf(a, b) ==
    IF ~b.hasPrompt THEN ProviderError(FALSE, 0)
    ELSE IF a \in GoogleAdapters /\ b.clientFails THEN ProviderError(FALSE, 0)
    ELSE IF b.fails
         THEN ProviderError(Retryable(a, StatusCode(a, b.status)), StatusCode(a, b.status))
    ELSE IF NoContent(a, b) THEN ProviderError(FALSE, 0)
    ELSE [NoResp EXCEPT !.done = TRUE, !.Text = ResponseText(a, b),
                        !.InputTokens = TokenCounts(a, b)[1],
                        !.OutputTokens = TokenCounts(a, b)[2]]

GenerateWithParams ==
    /\ adapter \in Adapters
    /\ ~resp.done
    /\ resp' = GenerateWithParamsOf(adapter, backend)
    /\ UNCHANGED <<normVars, streamVars, balanceVars, genVars, auxVars, adapter, backend>>

AdapterInit ==
    /\ kind = "none"
    /\ NewReader
    /\ variant = "none" /\ esr = NoReader /\ store = NoStore /\ e_closes = 0
    /\ NoBalance
    /\ NoGen
    /\ NoAux
    /\ adapter \in Adapters
    /\ backend \in Backends
    /\ resp = NoResp

AdapterNext == GenerateWithParams

SpecAdapter == AdapterInit /\ [][AdapterNext]_vars

\* ------------------------------------------------------------------ optimizer
GenerateThreshold == 50
StreamThreshold == 100
SuffixLen == 207

Lens == {40, GenerateThreshold, GenerateThreshold + 1, StreamThreshold, StreamThreshold + 1}
Prompts == {Text(len, fluff) : len \in Lens, fluff \in {0, 4}}

ShouldOptimize(input, threshold) == input.len > threshold

\* the rule-based pass removes the removable bytes and nothing else
applyRuleBasedOptimizations(text) == Text(text.len - text.fluff, 0)

\* len(text) / 4; the llm variant's tiktoken count is, like it, a function of
\* the text alone
EstimateTokens(text) == text.len \div 4

\* what the auxiliary model can answer for a prompt, after TrimSpace and
\* cleanOptimizedResponse: an error, nothing, the prompt itself, a shorter text
AiOutcomes(original) ==
    {[fails |-> TRUE, text |-> NoText]}
    \cup {[fails |-> FALSE, text |-> t] :
             t \in {NoText, original, Text(original.len \div 2, 0)}}

NewResult(original) ==
    [NoResult EXCEPT !.nil = FALSE, !.OriginalText = original, !.OptimizationType = "prompt"]

\* AI-failure branch that propagates the error instead of falling back
AiFailedPropagates(original, res) ==
    [res |-> res, err |-> TRUE, aiCalled |-> TRUE]

\* optimizePromptWithMode, services variant: the branch taken when the AI call fails
AiFailed(original, res) ==
    [res |-> [res EXCEPT !.FallbackReason = "ai_optimization_failed",
                         !.OptimizedText = original,
                         !.WasOptimized = FALSE,
                         !.OriginalTokens = EstimateTokens(original),
                         !.OptimizedTokens = EstimateTokens(original),
                         !.TokensSaved = 0],
     err |-> FALSE, aiCalled |-> TRUE]

\* optimizePromptWithMode of package services
OptimizeServices(original, ai) ==
    LET res == NewResult(original)
        ruleOptimized == applyRuleBasedOptimizations(original)
        estimated(r, text) ==
            [r EXCEPT !.OptimizedText = text,
                      !.OriginalTokens = EstimateTokens(original),
                      !.OptimizedTokens = EstimateTokens(text),
                      !.TokensSaved = EstimateTokens(original) - EstimateTokens(text)]
    IN  IF ruleOptimized # original
        THEN [res |-> estimated([res EXCEPT !.WasOptimized = TRUE,
                                            !.OptimizationType = "rule_based"],
                                ruleOptimized),
              err |-> FALSE, aiCalled |-> FALSE]
        ELSE IF ai.fails THEN AiFailed(original, res)
        ELSE IF ai.text # NoText /\ ai.text # original
        THEN [res |-> estimated([res EXCEPT !.WasOptimized = TRUE,
                                            !.OptimizationType = "ai_based"],
                                ai.text),
              err |-> FALSE, aiCalled |-> TRUE]
        ELSE [res |-> estimated(res, original), err |-> FALSE, aiCalled |-> TRUE]

\* optimizePromptWithMode of the llm variant
OptimizeLlm(original, ai) ==
    LET res == [NewResult(original) EXCEPT !.OriginalTokens = EstimateTokens(original)]
        ruleOptimized == applyRuleBasedOptimizations(original)
        fallback(r) ==
            [r EXCEPT !.OptimizedText = ruleOptimized,
                      !.WasOptimized = (ruleOptimized # original),
                      !.OptimizationType = IF ruleOptimized # original
                                           THEN "rule_based_fallback" ELSE @]
        chosen ==
            IF ruleOptimized # original
            THEN [res EXCEPT !.OptimizedText = ruleOptimized, !.WasOptimized = TRUE,
                             !.OptimizationType = "rule_based"]
            ELSE IF ai.fails
            THEN fallback([res EXCEPT !.FallbackReason = "ai_optimization_failed"])
            ELSE IF ai.text # NoText /\ ai.text # original
            THEN [res EXCEPT !.OptimizedText = ai.text, !.WasOptimized = TRUE,
                             !.OptimizationType = "ai_based"]
            ELSE fallback(res)
    IN  [res |-> [chosen EXCEPT !.OptimizedTokens = EstimateTokens(chosen.OptimizedText),
                                !.TokensSaved = EstimateTokens(original)
                                                - EstimateTokens(chosen.OptimizedText)],
         err |-> FALSE, aiCalled |-> (ruleOptimized = original)]

OptimizePromptWithMode(v, original, ai) ==
    IF v = "services" THEN OptimizeServices(original, ai) ELSE OptimizeLlm(original, ai)

\* ------------------------------------------------------------------ generation service
\* the result the orchestrator builds itself when it makes no use of the optimizer
UnoptimizedResult(text, reason) ==
    [NoResult EXCEPT !.nil = FALSE, !.OriginalText = text, !.OptimizedText = text,
                     !.OptimizationType = "none", !.FallbackReason = reason]

\* req.Prompt += responseOptimizationPrompt; the suffix starts with two newlines,
\* which the rule-based pass would collapse into one space
WithSuffix(text) == Text(text.len + SuffixLen, text.fluff + 1)

\* one OptimizePromptWithMode call as the orchestrator sees it
CallRecord(text, ai, o) ==
    [in |-> text, aiCalled |-> o.aiCalled, aiFails |-> o.aiCalled /\ ai.fails,
     err |-> o.err, res |-> o.res]

\* Step 1 of Generate, GenerateStream and handleNonStreamingGeneration: the
\* optimization of req.Prompt and the response-optimization suffix.  skipped is
\* the promptOptimizationResult when no optimization is attempted.
OptimizeStep(text, threshold, ai, skipped) ==
    IF cfg.optimizer # "none" /\ cfg.Enabled /\ ShouldOptimize(text, threshold)
    THEN LET o == OptimizePromptWithMode(cfg.optimizer, text, ai)
         IN  IF o.err
             THEN IF cfg.FallbackOnOptimizationFailure
                  THEN [por |-> UnoptimizedResult(text, "optimization_failed"),
                        prompt |-> text, failed |-> FALSE,
                        call |-> <<CallRecord(text, ai, o)>>]
                  ELSE [por |-> NoResult, prompt |-> text, failed |-> TRUE,
                        call |-> <<CallRecord(text, ai, o)>>]
             ELSE [por |-> o.res,
                   prompt |-> IF o.res.WasOptimized THEN WithSuffix(o.res.OptimizedText)
                              ELSE text,
                   failed |-> FALSE, call |-> <<CallRecord(text, ai, o)>>]
    ELSE [por |-> skipped, prompt |-> text, failed |-> FALSE, call |-> <<>>]

\* usage the user's model reports for its input, and the tokens_saved=<n>
\* estimate found in its output (0: no marker)
UserInputTokens == {0, 1, MaxTok}
MarkerEstimates == {0, MaxTok}

\* input tokens saved, from the optimization result and the user model's usage
InputTokensSaved(res, userModelInputTokens) ==
    IF res.nil \/ ~res.WasOptimized \/ userModelInputTokens = 0 THEN 0
    ELSE LET gemma3InputTokens == IF res.Gemma3InputTokens = 0 THEN res.OriginalTokens
                                  ELSE res.Gemma3InputTokens
         IN  IF gemma3InputTokens - userModelInputTokens < 0 THEN 0
             ELSE gemma3InputTokens - userModelInputTokens

\* EnhancedStreamReader.getTokensSaved
getTokensSaved(res) == IF ~res.nil /\ res.WasOptimized THEN res.TokensSaved ELSE 0

\* EnhancedStreamReader.getSavingsAmount, in units of 1e-6 USD
getSavingsAmount(res) ==
    IF getTokensSaved(res) > 0 THEN getTokensSaved(res) * InputPricePerMillion ELSE 0

\* the request ends in an error: optimization failed without fallback, or the
\* user's model could not be called
GenFails(cs, text, optimizing) ==
    /\ o_pc' = IF optimizing THEN "opt_error" ELSE "gen_error"
    /\ calls' = cs
    /\ prompt' = text
    /\ UNCHANGED <<por, sent, result>>

\* GenerationService.Generate with handleNonStreamingGeneration, and the log
\* entry Handler.logRequest builds from its result
Generate ==
    /\ cfg.entry = "Generate"
    /\ o_pc = "start"
    /\ \E ai1 \in AiOutcomes(prompt) :
         LET s1 == OptimizeStep(prompt, GenerateThreshold, ai1, NoResult)
         IN  IF s1.failed THEN GenFails(s1.call, s1.prompt, TRUE)
             ELSE \E ai2 \in AiOutcomes(s1.prompt), ok \in BOOLEAN,
                     uin \in UserInputTokens, est \in MarkerEstimates :
                    LET s2 == OptimizeStep(s1.prompt, GenerateThreshold, ai2, NoResult)
                        final == IF s1.por.nil THEN s2.por ELSE s1.por
                        saved == InputTokensSaved(s2.por, uin)
                    IN  IF s2.failed \/ ~ok THEN GenFails(s1.call \o s2.call, s2.prompt, s2.failed)
                        ELSE /\ o_pc' = "done"
                             /\ calls' = s1.call \o s2.call
                             /\ prompt' = s2.prompt
                             /\ sent' = s2.prompt
                             /\ por' = final
                             /\ result' =
                                  [WasOptimized |-> IF s1.por.nil
                                                    THEN ~s2.por.nil /\ s2.por.WasOptimized
                                                    ELSE s1.por.WasOptimized,
                                   OptimizationStatus |-> "success",
                                   FallbackReason |-> final.FallbackReason,
                                   OptimizationType |-> final.OptimizationType,
                                   InputTokensSaved |-> saved,
                                   OutputTokensSaved |-> est,
                                   TotalTokensSaved |-> saved + est,
                                   logged |-> TRUE,
                                   TokensSaved |-> final.TokensSaved,
                                   SavingsAmount |->
                                       final.TokensSaved * TierMarkup.InputMarkupPercent,
                                   UserModelInputTokens |-> uin,
                                   Gemma3InputTokens |-> s2.por.Gemma3InputTokens]
    /\ UNCHANGED <<normVars, streamVars, balanceVars, callVars, auxVars, cfg>>

\* GenerationService.GenerateStream up to the StreamResponse it returns
GenerateStream ==
    /\ cfg.entry = "GenerateStream"
    /\ o_pc = "start"
    /\ \E ai \in AiOutcomes(prompt), ok \in BOOLEAN :
         LET s == OptimizeStep(prompt, StreamThreshold, ai,
                               UnoptimizedResult(prompt, "not_needed"))
         IN  IF s.failed \/ ~ok THEN GenFails(s.call, s.prompt, s.failed)
             ELSE /\ o_pc' = "streaming"
                  /\ calls' = s.call
                  /\ prompt' = s.prompt
                  /\ sent' = s.prompt
                  /\ por' = s.por
                  /\ result' = [NoReport EXCEPT
                                   !.WasOptimized = s.por.WasOptimized,
                                   !.OptimizationStatus = "success",
                                   !.FallbackReason = s.por.FallbackReason,
                                   !.OptimizationType = s.por.OptimizationType]
    /\ UNCHANGED <<normVars, streamVars, balanceVars, callVars, auxVars, cfg>>

\* EnhancedStreamReader.logUsage at the end of the stream: the savings it
\* computes and the savings fields of the log entry it writes
StreamLogUsage ==
    /\ o_pc = "streaming"
    /\ \E uin \in UserInputTokens, est \in MarkerEstimates :
         IF por.WasOptimized /\ uin = 0
         THEN result' = [result EXCEPT !.InputTokensSaved = 0,
                                       !.TotalTokensSaved = result.OutputTokensSaved]
         ELSE result' = [result EXCEPT
                            !.InputTokensSaved = InputTokensSaved(por, uin),
                            !.OutputTokensSaved = est,
                            !.TotalTokensSaved = InputTokensSaved(por, uin) + est,
                            !.logged = TRUE,
                            !.TokensSaved = getTokensSaved(por),
                            !.SavingsAmount = getSavingsAmount(por),
                            !.UserModelInputTokens = uin,
                            !.Gemma3InputTokens = por.Gemma3InputTokens]
    /\ o_pc' = "done"
    /\ UNCHANGED <<normVars, streamVars, balanceVars, callVars, auxVars, cfg, prompt, por, calls, sent>>

GenInit ==
    /\ kind = "none"
    /\ NewReader
    /\ variant = "none" /\ esr = NoReader /\ store = NoStore /\ e_closes = 0
    /\ NoBalance
    /\ NoCall
    /\ cfg \in [entry : {"Generate", "GenerateStream"},
                optimizer : {"none", "services", "llm"},
                Enabled : BOOLEAN,
                FallbackOnOptimizationFailure : BOOLEAN]
    /\ prompt \in Prompts
    /\ o_pc = "start"
    /\ por = NoResult
    /\ calls = <<>>
    /\ sent = NoText
    /\ result = NoReport
    /\ NoAux

GenNext ==
    \/ Generate
    \/ GenerateStream
    \/ StreamLogUsage

SpecGen == GenInit /\ [][GenNext]_vars

\* ------------------------------------------------------------------ cost resolution
TierIDs == {"basic", "pro", "custom"}
CustomPrice == Price(1, 4)

\* the tier documents that can exist: basic and pro are public tiers, the
\* third may be flagged custom and may carry an override for the model
TierDoc(id, basicActive, isCustom, override) ==
    CASE id = "basic" -> Tier("basic", 0, 10, 10, basicActive, FALSE, NoPrice)
      [] id = "pro" -> Tier("pro", 100, 5, 5, TRUE, FALSE, NoPrice)
      [] OTHER -> Tier("custom", 50, 0, 20, TRUE, isCustom, override)

\* Service.GetPricingTier (firebase): the document of the tier, or an error
GetPricingTier(tierID) ==
    IF pricing.getOk /\ tierID \in DOMAIN pricing.tiers
    THEN [err |-> FALSE, tier |-> pricing.tiers[tierID]]
    ELSE [err |-> TRUE, tier |-> NoTier]

\* the tiers the default-tier query selects from
DefaultCandidates ==
    {pricing.tiers[id] : id \in {i \in DOMAIN pricing.tiers :
                                    pricing.tiers[i].IsActive /\ ~pricing.tiers[i].IsCustom}}

\* Service.GetDefaultPricingTier: is_active, not is_custom, ordered by
\* min_monthly_spend ascending, limit 1
GetDefaultPricingTier ==
    IF pricing.queryOk /\ DefaultCandidates # {}
    THEN [err |-> FALSE,
          tier |-> CHOOSE t \in DefaultCandidates :
                      \A u \in DefaultCandidates : t.MinMonthlySpend <= u.MinMonthlySpend]
    ELSE [err |-> TRUE, tier |-> NoTier]

\* tier lookup without the fallback
TierOrError(tierID) == GetPricingTier(tierID)

\* the tier lookup of CalculateCost and getPricingTierFromCache: on failure,
\* fall back to the default tier
TierOrDefault(tierID) ==
    IF GetPricingTier(tierID).err THEN GetDefaultPricingTier ELSE GetPricingTier(tierID)

\* markup taken on the whole base cost at the input percentage
CostOfFlatMarkup(inTok, outTok, inputPrice, outputPrice, tier) ==
    LET baseCost == inTok * inputPrice + outTok * outputPrice
    IN  [total |-> baseCost * 100 + baseCost * tier.InputMarkupPercent,
         markup |-> baseCost * tier.InputMarkupPercent]

\* base cost, markup and total of Service.CalculateCost (firebase) and
\* GenerationService.CalculateCost, in units of 1e-8 USD
CostOf(inTok, outTok, inputPrice, outputPrice, tier) ==
    LET inputCost == inTok * inputPrice
        outputCost == outTok * outputPrice
        baseCost == inputCost + outputCost
        inputMarkup == inputCost * tier.InputMarkupPercent
        outputMarkup == outputCost * tier.OutputMarkupPercent
        totalMarkup == inputMarkup + outputMarkup
    IN  [total |-> baseCost * 100 + totalMarkup, markup |-> totalMarkup]

\* inputPrice, outputPrice of Service.CalculateCost (firebase)
PricesBlocking(u, tier) ==
    IF u.CustomPricing /\ tier.IsCustom /\ tier.Override.has
    THEN <<tier.Override.in, tier.Override.out>>
    ELSE <<InputPricePerMillion, OutputPricePerMillion>>

\* the prices EnhancedStreamReader.calculateActualCost uses: r.ModelConfig's
PricesStreaming == <<InputPricePerMillion, OutputPricePerMillion>>

Resolved(prices, tier) ==
    [NoCostResult EXCEPT !.done = TRUE,
                         !.total = CostOf(bill.inTok, bill.outTok, prices[1], prices[2], tier).total,
                         !.markup = CostOf(bill.inTok, bill.outTok, prices[1], prices[2], tier).markup,
                         !.inputPrice = prices[1], !.outputPrice = prices[2], !.tier = tier]

\* Handler.AuthMiddleware: the pricing tier of the request context
AuthMiddleware ==
    /\ bill.pc = "auth"
    /\ LET t == TierOrDefault(account.TierID)
       IN  bill' = IF t.err THEN [bill EXCEPT !.pc = "rejected"]
                   ELSE [bill EXCEPT !.pc = "bill", !.tier = t.tier]
    /\ UNCHANGED <<normVars, streamVars, balanceVars, callVars, genVars, admitVars, cacheVars, moreVars, pricing, account, quote>>

\* the cost of the request: pricing Service.CalculateCost for a blocking
\* request, EnhancedStreamReader.calculateActualCost for a streaming one
ResolveCost ==
    /\ bill.pc = "bill"
    /\ bill' = [bill EXCEPT !.pc = "done"]
    /\ IF bill.path = "blocking"
       THEN LET t == TierOrDefault(account.TierID)
            IN  quote' = IF t.err THEN [NoCostResult EXCEPT !.done = TRUE, !.err = TRUE]
                        ELSE Resolved(PricesBlocking(account, t.tier), t.tier)
       ELSE quote' = Resolved(PricesStreaming, bill.tier)
    /\ UNCHANGED <<normVars, streamVars, balanceVars, callVars, genVars, admitVars, cacheVars, moreVars, pricing, account>>

CostInit ==
    /\ kind = "none"
    /\ NewReader
    /\ variant = "none" /\ esr = NoReader /\ store = NoStore /\ e_closes = 0
    /\ NoBalance
    /\ NoCall
    /\ NoGen
    /\ NoAdmit
    /\ NoCache
    /\ NoMore
    /\ \E ids \in SUBSET TierIDs, basicActive \in BOOLEAN, isCustom \in BOOLEAN,
          override \in {NoPrice, CustomPrice}, getOk \in BOOLEAN, queryOk \in BOOLEAN :
         pricing = [tiers |-> [id \in ids |-> TierDoc(id, basicActive, isCustom, override)],
                    getOk |-> getOk, queryOk |-> queryOk]
    /\ account \in [TierID : TierIDs, CustomPricing : BOOLEAN]
    /\ \E path \in {"blocking", "streaming"}, inTok \in {1, 1000000}, outTok \in {0, 500000} :
         bill = [NoBill EXCEPT !.path = path, !.inTok = inTok, !.outTok = outTok, !.pc = "auth"]
    /\ quote = NoCostResult

CostNext ==
    \/ AuthMiddleware
    \/ ResolveCost

SpecCost == CostInit /\ [][CostNext]_vars

\* ------------------------------------------------- admission and billing
\* the two request stacks: internal/services with internal/handlers
\* ("services"), and package api with package pricing ("api")
Layers == {"services", "api"}
Paths == {"blocking", "streaming"}
\* model ids a request can name: none, a configured active model, a
\* configured model that is not active, a model that is not configured
ModelIDs == {"", "live", "retired", "ghost"}
StartBalance == 5
RequestCost == 1

\* Service.modelConfigs: the services configuration carries IsActive, the
\* pricing one has no such field and holds the served models only
ModelConfigs(layer) ==
    IF layer = "services"
    THEN [m \in {"live", "retired"} |-> [ModelID |-> m, IsActive |-> m = "live"]]
    ELSE [m \in {"live"} |-> [ModelID |-> m, IsActive |-> TRUE]]

\* a lookup that serves whatever is configured (the activity test left out)
GetModelConfigAnyStatus(layer, modelID) ==
    IF modelID \notin DOMAIN ModelConfigs(layer)
    THEN [err |-> TRUE, config |-> [ModelID |-> "", IsActive |-> FALSE]]
    ELSE [err |-> FALSE, config |-> ModelConfigs(layer)[modelID]]
\* Service.GetModelConfig
GetModelConfig(layer, modelID) ==
    IF modelID \notin DOMAIN ModelConfigs(layer)
    THEN [err |-> TRUE, config |-> [ModelID |-> "", IsActive |-> FALSE]]
    ELSE IF layer = "services" /\ ~ModelConfigs(layer)[modelID].IsActive
    THEN [err |-> TRUE, config |-> [ModelID |-> "", IsActive |-> FALSE]]
    ELSE [err |-> FALSE, config |-> ModelConfigs(layer)[modelID]]

\* getUserFromCache: the snapshot a read of the user works on, and the
\* cache after the read (a miss or an expired entry is loaded from the store)
Loaded(u) == Snapshot("valid", u.IsActive, u.Balance)
GetUserFromCache(u) == IF u.cache.state = "valid" THEN u.cache ELSE Loaded(u)

\* does the entry point make the pre-flight account check
ChecksAccount(layer, path) == layer = "api" \/ path = "blocking"
\* does the billing step delete the cached snapshot after the adjustment:
\* only GenerationService.updateUserBalance of package api does
DeletesSnapshot(layer, path) == layer = "api" /\ path = "blocking"

Fail(reason) ==
    /\ a_pc' = "failed"
    /\ a_fx' = [a_fx EXCEPT !.err = reason]

\* Generate / GenerateStream: model validation and GetModelConfig
AdmitModel ==
    /\ a_pc = "start"
    /\ IF GetModelConfig(a_req.layer, a_req.model).err
       THEN Fail("config")
       ELSE /\ a_pc' = IF ChecksAccount(a_req.layer, a_req.path) THEN "account" ELSE "optimize"
            /\ a_fx' = a_fx
    /\ UNCHANGED <<normVars, streamVars, balanceVars, callVars, genVars, costVars, cacheVars, moreVars, a_req, a_user>>

\* checkUserBalance: the pre-flight check on the cached snapshot
AdmitAccount ==
    /\ a_pc = "account"
    /\ LET cachedUser == GetUserFromCache(a_user)
       IN  /\ a_user' = [a_user EXCEPT !.cache = cachedUser]
           /\ IF ~cachedUser.IsActive
              THEN Fail("inactive")
              ELSE a_pc' = "optimize" /\ a_fx' = a_fx
    /\ UNCHANGED <<normVars, streamVars, balanceVars, callVars, genVars, costVars, cacheVars, moreVars, a_req>>

\* the prompt optimization step: the optimizer is called when enabled and
\* ShouldOptimize holds
AdmitOptimize ==
    /\ a_pc = "optimize"
    /\ \E called \in BOOLEAN :
         a_fx' = [a_fx EXCEPT !.optimizer = IF called THEN 1 ELSE 0]
    /\ a_pc' = "generate"
    /\ UNCHANGED <<normVars, streamVars, balanceVars, callVars, genVars, costVars, cacheVars, moreVars, a_req, a_user>>

\* client.GenerateWithParams / client.GenerateStream
AdmitGenerate ==
    /\ a_pc = "generate"
    /\ \E ok \in BOOLEAN :
         IF ok
         THEN a_pc' = "bill" /\ a_fx' = [a_fx EXCEPT !.backend = 1]
         ELSE a_pc' = "failed" /\ a_fx' = [a_fx EXCEPT !.backend = 1, !.err = "backend"]
    /\ UNCHANGED <<normVars, streamVars, balanceVars, callVars, genVars, costVars, cacheVars, moreVars, a_req, a_user>>

\* the billing step: Handler.Generate (services, blocking),
\* EnhancedStreamReader.chargeUser (streaming, both layers),
\* GenerationService.updateUserBalance (api, blocking)
AdmitBill ==
    /\ a_pc = "bill"
    /\ \E ok \in BOOLEAN :
         IF ok
         THEN /\ a_user' = [a_user EXCEPT
                     !.Balance = @ - RequestCost,
                     !.cache = IF DeletesSnapshot(a_req.layer, a_req.path)
                               THEN NoSnapshot ELSE @]
              /\ a_fx' = [a_fx EXCEPT !.charged = TRUE, !.logged = TRUE]
         ELSE /\ a_user' = a_user
              /\ a_fx' = [a_fx EXCEPT !.logged = TRUE, !.err = "charge"]
    /\ a_pc' = "done"
    /\ UNCHANGED <<normVars, streamVars, balanceVars, callVars, genVars, costVars, cacheVars, moreVars, a_req>>

AdmitInit ==
    /\ kind = "none"
    /\ NewReader
    /\ variant = "none" /\ esr = NoReader /\ store = NoStore /\ e_closes = 0
    /\ NoBalance
    /\ NoCall
    /\ NoGen
    /\ NoCost
    /\ NoCache
    /\ NoMore
    /\ a_req \in [layer : Layers, path : Paths, model : ModelIDs]
    /\ \E active \in BOOLEAN :
         \E snap \in {NoSnapshot, Snapshot("valid", active, StartBalance)}
                  \cup {Snapshot("expired", b, StartBalance) : b \in BOOLEAN} :
            a_user = [IsActive |-> active, Balance |-> StartBalance, cache |-> snap]
    /\ a_pc = "start"
    /\ a_fx = NoEffects

AdmitNext ==
    \/ AdmitModel
    \/ AdmitAccount
    \/ AdmitOptimize
    \/ AdmitGenerate
    \/ AdmitBill

SpecAdmit == AdmitInit /\ [][AdmitNext]_vars


\* ------------------------------------------------------------- the caches
\* services: Service of internal/services (Firestore model configurations);
\* pricing: Service of package pricing; user: the "user:<id>" snapshot cache
CacheKinds == {"services", "pricing", "user"}
Callers == {"t1", "t2"}
Goroutine(t) == IF t = "t1" THEN "g1" ELSE "g2"
Workers == {"main"} \cup Callers \cup {Goroutine(t) : t \in Callers}
\* cacheTTL, in clock ticks
TTL == 2
MaxNow == 4

GetOps == {"GetModelConfig", "GetPricingTier", "getUserFromCache"}
OpsOf(k) ==
    CASE k = "services" -> {"GetModelConfig", "RefreshCache"}
      [] k = "pricing" -> {"GetModelConfig", "GetPricingTier"}
      [] OTHER -> {"getUserFromCache"}

Age == now - entry.lastRefresh
\* positions in which a goroutine is carrying out a refresh or a load
Refreshing == {"refresh", "iterate", "stamp", "load"}

\* shouldRefreshCache of package pricing reads lastRefresh without the lock
\* while RefreshCache writes it without the lock: a read that races with a
\* pending write can come out either way
ShouldRefreshOutcomes ==
    IF \E w \in Workers : thr[w].pc = "stamp" THEN BOOLEAN ELSE {Age > TTL}

Observed(op, expired, triggered, pc) ==
    [op |-> op, pc |-> pc, hadEntry |-> entry.present, age |-> Age,
     expired |-> expired, triggered |-> triggered, storeErr |-> FALSE, ret |-> -1]

\* time passes
Tick ==
    /\ now < MaxNow
    /\ now' = now + 1
    /\ UNCHANGED <<normVars, streamVars, balanceVars, callVars, genVars, costVars, admitVars, moreVars,
                   cacheKind, entry, mu, storeRead, thr>>

\* services Service.GetModelConfig: no expiry test, the read follows
CallGetModelConfigServices(t) ==
    /\ cacheKind = "services"
    /\ thr' = [thr EXCEPT ![t] = Observed("GetModelConfig", FALSE, FALSE, "read")]
    /\ UNCHANGED storeRead

\* services Service.RefreshCache, called directly
CallRefreshCache(t) ==
    /\ cacheKind = "services"
    /\ thr' = [thr EXCEPT ![t] = Observed("RefreshCache", FALSE, TRUE, "refresh")]
    /\ UNCHANGED storeRead

\* pricing Service.GetModelConfig: an expired cache starts RefreshCache in a
\* new goroutine, the read follows
CallGetModelConfigPricing(t) ==
    /\ cacheKind = "pricing"
    /\ \E exp \in ShouldRefreshOutcomes :
         thr' = [thr EXCEPT
                   ![t] = Observed("GetModelConfig", exp, exp, "read"),
                   ![Goroutine(t)] = IF exp
                                     THEN [NoThread EXCEPT !.op = "RefreshCache", !.pc = "refresh"]
                                     ELSE @]
    /\ UNCHANGED storeRead

\* pricing Service.GetPricingTier: an expired cache is refreshed by the
\* caller before it reads
CallGetPricingTier(t) ==
    /\ cacheKind = "pricing"
    /\ \E exp \in ShouldRefreshOutcomes :
         thr' = [thr EXCEPT
                   ![t] = Observed("GetPricingTier", exp, exp, IF exp THEN "refresh" ELSE "read")]
    /\ UNCHANGED storeRead

\* getUserFromCache: a snapshot younger than the TTL is returned, anything
\* else is loaded from the store by the caller
CallGetUserFromCache(t) ==
    /\ cacheKind = "user"
    /\ IF entry.present /\ Age < TTL
       THEN /\ thr' = [thr EXCEPT ![t] =
                         [Observed("getUserFromCache", FALSE, FALSE, "done")
                            EXCEPT !.ret = entry.loadedAt]]
            /\ UNCHANGED storeRead
       ELSE /\ thr' = [thr EXCEPT ![t] =
                         Observed("getUserFromCache", entry.present, TRUE, "load")]
            /\ storeRead' = storeRead \cup {t}

\* a request goroutine enters one of the cache's operations
Call ==
    /\ thr["main"].pc = "done"
    /\ \E t \in Callers :
         /\ thr[t].pc = "idle"
         /\ \/ CallGetModelConfigServices(t)
            \/ CallRefreshCache(t)
            \/ CallGetModelConfigPricing(t)
            \/ CallGetPricingTier(t)
            \/ CallGetUserFromCache(t)
    /\ UNCHANGED <<normVars, streamVars, balanceVars, callVars, genVars, costVars, admitVars, moreVars,
                   cacheKind, now, entry, mu>>

\* the read of the cached value under RLock
Read ==
    /\ mu = "none"
    /\ \E t \in Callers :
         /\ thr[t].pc = "read"
         /\ thr' = [thr EXCEPT ![t].pc = "done",
                                ![t].ret = IF entry.present THEN entry.loadedAt ELSE -1]
    /\ UNCHANGED <<normVars, streamVars, balanceVars, callVars, genVars, costVars, admitVars, moreVars,
                   cacheKind, now, entry, mu, storeRead>>

\* PreCacheData / RefreshCache, loading: services
\* loadModelConfigsFromFirestore takes the lock and then iterates the
\* collection; pricing loadPricingTiers and loadModelConfigs assign their
\* tables under the lock
RefreshBegin ==
    /\ mu = "none"
    /\ \E w \in Workers :
         /\ thr[w].pc = "refresh"
         /\ IF cacheKind = "services"
            THEN /\ mu' = w
                 /\ storeRead' = storeRead \cup {w}
                 /\ entry' = entry
                 /\ thr' = [thr EXCEPT ![w].pc = "iterate"]
            ELSE /\ mu' = mu
                 /\ storeRead' = storeRead
                 /\ entry' = [entry EXCEPT !.present = TRUE, !.loadedAt = now]
                 /\ thr' = [thr EXCEPT ![w].pc = "stamp"]
    /\ UNCHANGED <<normVars, streamVars, balanceVars, callVars, genVars, costVars, admitVars, moreVars,
                   cacheKind, now>>

\* the error loadModelConfigsFromFirestore returns when iter.Next fails with
\* storeErr: the loop breaks on any error and the function returns nil
LoadError(storeErr) == FALSE

\* loadModelConfigsFromFirestore: the iteration ends (with the end of the
\* collection or with an error of the store), the deferred Unlock runs;
\* PreCacheData / RefreshCache load the defaults if the load returned an error
RefreshIterate ==
    /\ \E w \in Workers, storeErr \in BOOLEAN :
         /\ thr[w].pc = "iterate"
         /\ mu' = "none"
         /\ storeRead' = storeRead \ {w}
         /\ entry' = IF storeErr /\ ~LoadError(storeErr)
                     THEN entry
                     ELSE [entry EXCEPT !.present = TRUE, !.loadedAt = now]
         /\ thr' = [thr EXCEPT ![w].pc = "stamp", ![w].storeErr = storeErr]
    /\ UNCHANGED <<normVars, streamVars, balanceVars, callVars, genVars, costVars, admitVars, moreVars,
                   cacheKind, now>>

\* lastRefresh = time.Now(): under the lock in services, without it in pricing
RefreshStamp ==
    /\ \E w \in Workers :
         /\ thr[w].pc = "stamp"
         /\ cacheKind = "services" => mu = "none"
         /\ entry' = [entry EXCEPT !.lastRefresh = now]
         /\ thr' = [thr EXCEPT ![w].pc = IF thr[w].op = "GetPricingTier" THEN "read" ELSE "done"]
    /\ UNCHANGED <<normVars, streamVars, balanceVars, callVars, genVars, costVars, admitVars, moreVars,
                   cacheKind, now, mu, storeRead>>

\* getUserFromCache: GetUserByID returns, the snapshot is cached and returned
UserLoad ==
    /\ \E t \in Callers :
         /\ thr[t].pc = "load"
         /\ storeRead' = storeRead \ {t}
         /\ entry' = [present |-> TRUE, loadedAt |-> now, lastRefresh |-> now]
         /\ thr' = [thr EXCEPT ![t].pc = "done", ![t].ret = now]
    /\ UNCHANGED <<normVars, streamVars, balanceVars, callVars, genVars, costVars, admitVars, moreVars,
                   cacheKind, now, mu>>

\* after NewService / cache.New: main is about to run PreCacheData (the
\* user cache has nothing to pre-load)
CacheInit ==
    /\ kind = "none"
    /\ NewReader
    /\ variant = "none" /\ esr = NoReader /\ store = NoStore /\ e_closes = 0
    /\ NoBalance
    /\ NoCall
    /\ NoGen
    /\ NoCost
    /\ NoAdmit
    /\ NoMore
    /\ cacheKind \in CacheKinds
    /\ now = 0
    /\ entry = NoEntry
    /\ mu = "none"
    /\ storeRead = {}
    /\ thr = [w \in Workers |->
                IF w = "main"
                THEN [NoThread EXCEPT !.op = "PreCacheData",
                                      !.pc = IF cacheKind = "user" THEN "done" ELSE "refresh"]
                ELSE NoThread]

CacheNext ==
    \/ Tick
    \/ Call
    \/ Read
    \/ RefreshBegin
    \/ RefreshIterate
    \/ RefreshStamp
    \/ UserLoad

SpecCache == CacheInit /\ [][CacheNext]_vars


\* ---------------------------------------------------------- AuthMiddleware
MockKey == "mock-api-key-for-development"
MockUserID == "mock-user-id"
\* tokens a client can put in the header: none, a registered key, an
\* unregistered key, the development key
ApiTokens == {"", "k1", "bad", MockKey}
UserIDs == {"u1", MockUserID}
requestContextGinKey == "requestContext"

\* the key of the header: "Bearer <token>" or the bare token; no key is the
\* development key
ExtractKey(env) == IF env.token = "" THEN MockKey ELSE env.token
\* hashAPIKey: sha256 of the salted key
hashAPIKey(apiKey) == <<"sha256", apiKey, "salt">>
\* the active api_keys documents, by key hash
ApiKeyDocs == [h \in {hashAPIKey("k1")} |-> "u1"]
\* Service.GetUserByID
GetUserByID(env, id) == [err |-> id \notin env.docs, ID |-> id]
\* Service.GetUserByAPIKey: the active key document, then its user
GetUserByAPIKey(env, keyHash) ==
    IF keyHash \notin DOMAIN ApiKeyDocs THEN [err |-> TRUE, ID |-> "none"]
    ELSE GetUserByID(env, ApiKeyDocs[keyHash])

Abort(status) ==
    /\ gin' = [gin EXCEPT !.aborted = TRUE, !.status = status]

\* a failed key lookup that lets the request through
OnLookupErrorContinue ==
    /\ auth' = [auth EXCEPT !.pc = "cached", !.lookupFailed = TRUE]
    /\ gin' = gin
\* the key lookup failed: 401 and c.Abort()
OnLookupError ==
    /\ auth' = [auth EXCEPT !.pc = "aborted", !.lookupFailed = TRUE]
    /\ Abort(401)

\* the API key of the Authorization header
AuthExtractKey ==
    /\ auth.pc = "start"
    /\ auth' = [auth EXCEPT !.pc = "lookup", !.apiKey = ExtractKey(authEnv)]
    /\ UNCHANGED <<normVars, streamVars, balanceVars, callVars, genVars, costVars, admitVars,
                   cacheVars, serveVars, lockVars, authEnv, gin>>

\* the user of the key: the mock user for the development key, else
\* GetUserByAPIKey on the hash of the key
AuthLookupUser ==
    /\ auth.pc = "lookup"
    /\ IF auth.apiKey = MockKey
       THEN /\ auth' = [auth EXCEPT !.pc = "cached", !.user = MockUserID]
            /\ gin' = gin
       ELSE LET u == GetUserByAPIKey(authEnv, hashAPIKey(auth.apiKey))
            IN  IF u.err THEN OnLookupError
                ELSE /\ auth' = [auth EXCEPT !.pc = "cached", !.user = u.ID]
                     /\ gin' = gin
    /\ UNCHANGED <<normVars, streamVars, balanceVars, callVars, genVars, costVars, admitVars,
                   cacheVars, serveVars, lockVars, authEnv>>

\* getUserFromCache of the user's id: 500 and abort when it fails
AuthCachedUser ==
    /\ auth.pc = "cached"
    /\ IF GetUserByID(authEnv, auth.user).err
       THEN auth' = [auth EXCEPT !.pc = "aborted"] /\ Abort(500)
       ELSE auth' = [auth EXCEPT !.pc = "tier"] /\ gin' = gin
    /\ UNCHANGED <<normVars, streamVars, balanceVars, callVars, genVars, costVars, admitVars,
                   cacheVars, serveVars, lockVars, authEnv>>

\* getPricingTierFromCache: 500 and abort when it fails
AuthPricingTier ==
    /\ auth.pc = "tier"
    /\ IF ~authEnv.tierOk
       THEN auth' = [auth EXCEPT !.pc = "aborted"] /\ Abort(500)
       ELSE auth' = [auth EXCEPT !.pc = "set"] /\ gin' = gin
    /\ UNCHANGED <<normVars, streamVars, balanceVars, callVars, genVars, costVars, admitVars,
                   cacheVars, serveVars, lockVars, authEnv>>

\* c.Set(requestContextGinKey, requestCtx); c.Next()
AuthSetContext ==
    /\ auth.pc = "set"
    /\ auth' = [auth EXCEPT !.pc = "handler"]
    /\ gin' = [gin EXCEPT !.keys = [k \in {requestContextGinKey} |-> [UserID |-> auth.user]],
                          !.reached = TRUE]
    /\ UNCHANGED <<normVars, streamVars, balanceVars, callVars, genVars, costVars, admitVars,
                   cacheVars, serveVars, lockVars, authEnv>>

\* the downstream handler: getRequestContext
AuthHandler ==
    /\ auth.pc = "handler"
    /\ auth' = [auth EXCEPT !.pc = "done",
                            !.seen = IF requestContextGinKey \in DOMAIN gin.keys
                                     THEN gin.keys[requestContextGinKey].UserID ELSE "none"]
    /\ UNCHANGED <<normVars, streamVars, balanceVars, callVars, genVars, costVars, admitVars,
                   cacheVars, serveVars, lockVars, authEnv, gin>>

AuthInit ==
    /\ kind = "none"
    /\ NewReader
    /\ variant = "none" /\ esr = NoReader /\ store = NoStore /\ e_closes = 0
    /\ NoBalance
    /\ NoCall
    /\ NoGen
    /\ NoCost
    /\ NoAdmit
    /\ NoCache
    /\ serve = NoServe
    /\ NoLock
    /\ authEnv \in [bearer : BOOLEAN, token : ApiTokens, docs : SUBSET UserIDs, tierOk : BOOLEAN]
    /\ auth = [NoAuthState EXCEPT !.pc = "start"]
    /\ gin = NoGin

AuthNext ==
    \/ AuthExtractKey
    \/ AuthLookupUser
    \/ AuthCachedUser
    \/ AuthPricingTier
    \/ AuthSetContext
    \/ AuthHandler

SpecAuth == AuthInit /\ [][AuthNext]_vars


\* ------------------------------------------------ the streaming handlers
\* Handler.GenerateStream calls GenerationService.GenerateStream, which opens
\* the provider stream and returns it wrapped. services opens it under
\* streamCtx with `defer streamCancel()`, which runs at the return; package
\* api opens it under the context of the request.
ContextAfterReturn(v) == IF v = "services" THEN "cancelled" ELSE "live"

\* the last Read of the handler's loop returned an error (io.EOF included)
ReadEnded == ret.err \in {"EOF", "error"}

ServeGenerateStream ==
    /\ serve.pc = "call"
    /\ \E opened \in BOOLEAN :
         serve' = IF opened
                  THEN [serve EXCEPT !.pc = "streaming", !.handed = TRUE,
                                     !.ctx = ContextAfterReturn(variant)]
                  ELSE [serve EXCEPT !.pc = "returned"]
    /\ UNCHANGED <<normVars, streamVars, balanceVars, callVars, genVars, costVars, admitVars,
                   cacheVars, authVars, lockVars>>

\* the handler's loop: one Read of the stream while the last one gave no error
ServeRead ==
    /\ serve.pc = "streaming"
    /\ ~ReadEnded
    /\ EnhRead

\* handlers.Handler.GenerateStream: the write of a chunk to the client failed,
\* the c.Stream callback returns false (package api ignores the result of Write)
ServeWriteFailed ==
    /\ serve.pc = "streaming"
    /\ variant = "services"
    /\ ~ReadEnded /\ ret.n > 0
    /\ serve' = [serve EXCEPT !.pc = "returned", !.writeFailed = TRUE]
    /\ UNCHANGED <<normVars, streamVars, balanceVars, callVars, genVars, costVars, admitVars,
                   cacheVars, authVars, lockVars>>

\* api.Handler.GenerateStream: streamResp.Stream.Close() after the loop
ServeClose ==
    /\ serve.pc = "streaming"
    /\ variant = "api"
    /\ ReadEnded
    /\ e_closes = 0
    /\ EnhClose

\* the handler returns: handlers after the loop, api after its Close
ServeReturn ==
    /\ serve.pc = "streaming"
    /\ IF variant = "services" THEN ReadEnded ELSE e_closes > 0
    /\ serve' = [serve EXCEPT !.pc = "returned"]
    /\ UNCHANGED <<normVars, streamVars, balanceVars, callVars, genVars, costVars, admitVars,
                   cacheVars, authVars, lockVars>>

ServeInit ==
    /\ kind \in PullKinds
    /\ NewReader
    /\ variant \in {"services", "api"}
    /\ \E opt \in BOOLEAN, est \in {0, 1} :
         /\ variant = "api" => ~opt
         /\ variant = "services" => est = 0
         /\ esr = [NoReader EXCEPT !.WasOptimized = opt, !.InputTokens = est]
    /\ \E b \in Balances : store = [NoStore EXCEPT !.balance = b]
    /\ e_closes = 0
    /\ NoBalance
    /\ NoCall
    /\ NoGen
    /\ NoCost
    /\ NoAdmit
    /\ NoCache
    /\ NoAuth
    /\ NoLock
    /\ serve = [NoServe EXCEPT !.pc = "call"]

ServeNext ==
    \/ ServeGenerateStream
    \/ ServeRead
    \/ ServeWriteFailed
    \/ ServeClose
    \/ ServeReturn

SpecServe == ServeInit /\ [][ServeNext]_vars


\* ------------------------------------------------- the pricing cache's lock
\* The goroutines that use Service.mu of internal/services: main runs
\* PreCacheData, the callers run the exported operations.
LockThreads == {"main"} \cup Callers
LockOps == {"GetCacheStats", "RefreshCache", "GetModelConfig"}

LockFrame == UNCHANGED <<normVars, streamVars, balanceVars, callVars, genVars, costVars,
                         admitVars, cacheVars, authVars, serveVars>>

\* where an operation starts: GetCacheStats and GetModelConfig at their
\* RLock, PreCacheData and RefreshCache at the Lock of
\* loadModelConfigsFromFirestore
Entry(op) ==
    CASE op = "GetCacheStats" -> "stats_rlock"
      [] op = "GetModelConfig" -> "get_rlock"
      [] OTHER -> "load_lock"

\* a caller enters one of the operations
LockCall(t) ==
    /\ lk["main"].pc = "done"
    /\ t \in Callers
    /\ lk[t].pc \in {"idle", "done"}
    /\ \E op \in LockOps : lk' = [lk EXCEPT ![t] = [op |-> op, pc |-> Entry(op), held |-> 0]]
    /\ rw' = rw
    /\ LockFrame

\* s.mu.RLock() of GetCacheStats, of shouldRefreshCache (called by
\* GetCacheStats with the read lock held) and of GetModelConfig: a reader
\* enters unless a writer holds the lock or has called Lock and waits for it
RLock(t) ==
    /\ lk[t].pc \in {"stats_rlock", "should_rlock", "get_rlock"}
    /\ rw.writer = "none"
    /\ rw' = [rw EXCEPT !.readerCount = @ + 1]
    /\ lk' = [lk EXCEPT ![t].held = @ + 1,
                        ![t].pc = CASE lk[t].pc = "stats_rlock" -> "should_rlock"
                                    [] lk[t].pc = "should_rlock" -> "should"
                                    [] OTHER -> "get"]
    /\ LockFrame

\* the deferred s.mu.RUnlock() of shouldRefreshCache, GetCacheStats and
\* GetModelConfig
RUnlock(t) ==
    /\ lk[t].pc \in {"should", "stats_ret", "get"}
    /\ rw' = [rw EXCEPT !.readerCount = @ - 1]
    /\ lk' = [lk EXCEPT ![t].held = @ - 1,
                        ![t].pc = IF lk[t].pc = "should" THEN "stats_ret" ELSE "done"]
    /\ LockFrame

\* s.mu.Lock() of loadModelConfigsFromFirestore and of the lastRefresh
\* update, first half: the writer announces itself, which keeps new readers out
LockBegin(t) ==
    /\ lk[t].pc \in {"load_lock", "stamp_lock"}
    /\ rw.writer = "none"
    /\ rw' = [rw EXCEPT !.writer = t]
    /\ lk' = [lk EXCEPT ![t].pc = IF lk[t].pc = "load_lock" THEN "load_wait" ELSE "stamp_wait"]
    /\ LockFrame

\* s.mu.Lock(), second half: the writer enters once the readers have left
LockAcquire(t) ==
    /\ lk[t].pc \in {"load_wait", "stamp_wait"}
    /\ rw.writer = t
    /\ rw.readerCount = 0
    /\ rw' = [rw EXCEPT !.granted = TRUE]
    /\ lk' = [lk EXCEPT ![t].pc = IF lk[t].pc = "load_wait" THEN "load" ELSE "stamp"]
    /\ LockFrame

\* s.mu.Unlock(): at the end of loadModelConfigsFromFirestore (which returns
\* nil, so the defaults are not loaded) and after lastRefresh = time.Now()
Unlock(t) ==
    /\ lk[t].pc \in {"load", "stamp"}
    /\ rw' = NoRW
    /\ lk' = [lk EXCEPT ![t].pc = IF lk[t].pc = "load" THEN "stamp_lock" ELSE "done"]
    /\ LockFrame

\* after NewService: main is about to run PreCacheData
LockInit ==
    /\ kind = "none"
    /\ NewReader
    /\ variant = "none" /\ esr = NoReader /\ store = NoStore /\ e_closes = 0
    /\ NoBalance
    /\ NoCall
    /\ NoGen
    /\ NoCost
    /\ NoAdmit
    /\ NoCache
    /\ NoAuth
    /\ serve = NoServe
    /\ rw = NoRW
    /\ lk = [t \in LockThreads |->
               IF t = "main" THEN [op |-> "PreCacheData", pc |-> "load_lock", held |-> 0]
               ELSE [op |-> "none", pc |-> "idle", held |-> 0]]

LockNext ==
    \/ \E t \in LockThreads : LockCall(t)
    \/ \E t \in LockThreads : RLock(t)
    \/ \E t \in LockThreads : RUnlock(t)
    \/ \E t \in LockThreads : LockBegin(t)
    \/ \E t \in LockThreads : LockAcquire(t)
    \/ \E t \in LockThreads : Unlock(t)

SpecLock == LockInit /\ [][LockNext]_vars

\* ------------------------------------------------------------------ claims
\* C1: metering (the request log write and the balance charge) runs at most
\* once per streaming request, whatever Reads and Closes are made.
C1_MeteredAtMostOnce == Len(store.logs) <= 1 /\ store.chargeCalls <= 1

\* C2: once the stream was read to EOF and closed, a request log entry has
\* been written and the charge applied; with no usage reported by the backend
\* the logged cost is zero.
C2_EofCloseMetered ==
    (p_end = "eof" /\ e_closes > 0) =>
        /\ Len(store.logs) >= 1
        /\ store.chargesOk >= 1
        /\ (variant = "services" /\ lastReport = <<0, 0>>) =>
               store.logs[Len(store.logs)].cost = 0

\* C3: balance adjustment is atomic: the stored balance is the initial
\* balance plus the amounts of the adjustments that succeeded, and no
\* balance decision rests on a value read outside the transaction (a request
\* let through on the balance it read is charged).
C3_AtomicNoOutsideDecision ==
    /\ user.Balance = balance0 + applied
    /\ \A r \in Reqs :
         (h_pc[r] = "done" /\ r \in requestLogs) => h_req[r].status = 200

\* C4: a charge larger than the current balance of an active account
\* succeeds and leaves the stored balance negative.
C4_OverdraftAllowed ==
    (store.chargeCalls > 0 /\ store.last.cost > store.last.before) =>
        (store.last.ok /\ store.balance < 0)

\* C5: a generation request of an active account ends in a successful
\* response whatever the balance is: nothing rejects or fails it because
\* the balance is below the cost.
C5_ActiveNeverRejected ==
    \A r \in Reqs : (user.IsActive /\ h_pc[r] = "done") => h_req[r].status = 200

\* C6: Close on a stream normalizer is idempotent and never panics: no Close
\* call and no step of the bridging task closes the done channel twice.
C6_CloseNeverPanics == g_pc # "panicked" /\ c_pc # "panicked"

\* C7: whenever Close is called on a stream whose bridging task was started,
\* the task eventually terminates (returns).
C7_TaskTerminates == (closeCalled /\ started) ~> (g_pc = "exited")

\* C8: the bytes returned by successive Reads are the backend's bytes in the
\* order it produced them: none before an earlier one, none twice, and only
\* bytes the backend produced.
C8_Fifo ==
    /\ \A i \in 1..Len(delivered) : delivered[i] \in 1..p_bytes
    /\ \A i, j \in 1..Len(delivered) : i < j => delivered[i] < delivered[j]

\* C8 witness: two chunks of two bytes were delivered, the second one over more
\* than one Read because it was larger than the caller's buffer.
C8_Witness ==
    /\ p_n = 2
    /\ Len(delivered) = 4
    /\ ret.n = 1

\* C9: when Read returns EOF on a stream the caller did not close, the provider
\* stream is exhausted and GetUsage is the usage of the last usage-bearing unit
\* the backend produced.
C9_EofUsageFinal ==
    (ret.err = "EOF" /\ ~closeCalled) => (p_end # "open" /\ GetUsage = lastReport)

\* C10: after any sequence of units, the latched usage is the most recent
\* non-zero usage report among the units processed.
C10_LatchIsLastReport == GetUsage = procReport

\* C11: the latched usage never decreases: no step of a normalizer lowers the
\* input-token field or the output-token field.
C11_UsageMonotonic ==
    [][inputTokens' >= inputTokens /\ outputTokens' >= outputTokens]_vars

\* C12: a read error ends the stream for good: once a Read has returned a
\* non-EOF error, every Read result is zero bytes with EOF or an error, no
\* further byte is delivered and the provider stream is not advanced.
C12_ErrorIsFinal ==
    [][failed => /\ ret'.n = 0
                 /\ ret'.err \in {"EOF", "error"}
                 /\ delivered' = delivered
                 /\ <<p_n, p_bytes, p_end>>' = <<p_n, p_bytes, p_end>>]_vars

\* C12 witness: the Google reader returned the provider's error while a
\* response was still waiting in the items channel, and a later Read gave EOF.
C12_Witness ==
    /\ failed
    /\ kind = "google"
    /\ items # <<>>
    /\ ret = [n |-> 0, err |-> "EOF"]

\* the request's charge has been committed and the success response sent
Charged(r) == h_pc[r] = "done" /\ h_req[r].status = 200

\* C13: a request goes Generating, Metering, Logged, Completed: its log entry
\* is written only after its cost was charged, a success response comes
\* only after both, and a request that ends in failure has no log entry.
C13_RequestOrder ==
    \A r \in Reqs :
        /\ r \in requestLogs => Charged(r)
        /\ h_req[r].status = 200 => r \in requestLogs
        /\ h_req[r].status \in {402, 500} => r \notin requestLogs

\* C14: a request's log entry is created exactly once and never written
\* again: at no time has the store seen more than one write for the request,
\* and once the stream is closed it has seen exactly one.
C14_LoggedExactlyOnce ==
    /\ Len(store.logs) <= 1
    /\ esr.Closed => Len(store.logs) = 1

\* C15: on a successful call the adapter returns the token counts the backend
\* reported, and exactly zero when the backend reported none or zero; it never
\* puts a tokenizer or length-based estimate in their place.
C15_UsageAuthentic ==
    (resp.done /\ ~resp.err) =>
        <<resp.InputTokens, resp.OutputTokens>> =
            IF NonZero(backend.usage) THEN <<backend.usage.p, backend.usage.c>> ELSE <<0, 0>>

\* C16: the ProviderError an adapter returns for a failed API call follows the
\* retryability rule on the status of the failure: 401, 402, 403, 404, 429 are
\* not retryable, 5xx is retryable, and a failure without a usable status code
\* is retryable.
C16_RetryabilityRule ==
    (resp.done /\ backend.fails) =>
        /\ resp.err
        /\ backend.status \in NoRetryStatuses => ~resp.Retryable
        /\ (backend.status >= 500 /\ backend.status < 600) => resp.Retryable
        /\ (backend.status < 100 \/ backend.status > 599) => resp.Retryable

\* the prompt the request arrived with
OriginalPrompt == IF calls = <<>> THEN prompt ELSE calls[1].in
Threshold == IF cfg.entry = "Generate" THEN GenerateThreshold ELSE StreamThreshold
Answered == o_pc \in {"streaming", "done"}
AiFailedIn(i) == calls[i].aiFails

C18_FailureReported ==
    (Answered /\ \E i \in 1..Len(calls) : AiFailedIn(i)) =>
        /\ result.OptimizationStatus = "failed"
        /\ result.FallbackReason = "optimization_failed"

\* C19: a text shorter than the threshold is not optimized: ShouldOptimize is
\* false, no optimizer call is made, and the result has WasOptimized = false
\* and no optimizationType.
C19_ShortTextSkipped ==
    OriginalPrompt.len < Threshold =>
        /\ ~ShouldOptimize(OriginalPrompt, Threshold)
        /\ calls = <<>>
        /\ Answered => /\ ~result.WasOptimized
                       /\ result.OptimizationType = ""

\* C20: savings are claimed only when both token counts are real backend
\* usage; when either is missing, every savings figure reported and logged is
\* zero.
C20_SavingsOnlyFromRealUsage ==
    (o_pc = "done" /\ ~(result.Gemma3InputTokens > 0 /\ result.UserModelInputTokens > 0)) =>
        /\ result.InputTokensSaved = 0
        /\ result.OutputTokensSaved = 0
        /\ result.TotalTokensSaved = 0
        /\ result.logged => (result.TokensSaved = 0 /\ result.SavingsAmount = 0)

\* C21: the resolved cost is total = baseCost + markup, with baseCost the
\* token counts times the per-million prices and markup the input and output
\* costs times their markup percentages; at prices 2 and 8, markups 10% and
\* 10%, 1,000,000 input and 500,000 output tokens: base 6.00, markup 0.60,
\* total 6.60 (amounts in units of 1e-8 USD).
C21_CostFormula ==
    (quote.done /\ ~quote.err) =>
        LET inputCost == bill.inTok * quote.inputPrice
            outputCost == bill.outTok * quote.outputPrice
            baseCost == (inputCost + outputCost) * 100
            markup == inputCost * quote.tier.InputMarkupPercent
                      + outputCost * quote.tier.OutputMarkupPercent
        IN  /\ quote.markup = markup
            /\ quote.total = baseCost + markup
            /\ ( /\ quote.inputPrice = 2 /\ quote.outputPrice = 8
                 /\ quote.tier.InputMarkupPercent = 10 /\ quote.tier.OutputMarkupPercent = 10
                 /\ bill.inTok = 1000000 /\ bill.outTok = 500000 )
               => /\ quote.total - quote.markup = 600000000
                  /\ quote.markup = 60000000
                  /\ quote.total = 660000000

C21_Witness ==
    /\ quote.done /\ ~quote.err
    /\ bill.inTok = 1000000 /\ bill.outTok = 500000
    /\ quote.tier.ID = "basic"
    /\ quote.total = 660000000

\* C22: the prices a billed request is costed at are the tier's override for
\* the model when the account is flagged for custom pricing and the tier has
\* one, and the model's public prices otherwise.
C22_CustomPriceRule ==
    (quote.done /\ ~quote.err) =>
        <<quote.inputPrice, quote.outputPrice>> =
            IF account.CustomPricing /\ quote.tier.Override.has
            THEN <<quote.tier.Override.in, quote.tier.Override.out>>
            ELSE <<InputPricePerMillion, OutputPricePerMillion>>

\* the account's own tier cannot be read, and a default tier can
TierLookupFailed == GetPricingTier(account.TierID).err
IsLowestDefault(t) ==
    /\ t \in DefaultCandidates
    /\ \A u \in DefaultCandidates : t.MinMonthlySpend <= u.MinMonthlySpend

ModelServed == a_req.model \in DOMAIN ModelConfigs(a_req.layer)
                 /\ ModelConfigs(a_req.layer)[a_req.model].IsActive

\* C24: a request that names an unknown or inactive model fails before any
\* optimizer or backend call is made, and is neither charged nor logged.
C24_BadModelFatal ==
    ~ModelServed /\ a_pc # "idle" =>
        /\ a_pc \in {"start", "failed"}
        /\ a_fx.optimizer = 0 /\ a_fx.backend = 0
        /\ ~a_fx.charged /\ ~a_fx.logged
        /\ a_pc = "failed" => a_fx.err = "config"
C24_Witness == a_pc = "failed" /\ a_req.model = "retired" /\ a_req.layer = "services"

\* C25: a request of an account that is not active, blocking or streaming,
\* makes no backend generation call.
C25_InactiveAccountFatal == a_pc # "idle" /\ ~a_user.IsActive => a_fx.backend = 0

\* C30: after a successful balance adjustment, on the blocking and on the
\* streaming billing path, a read of the user through the cache observes
\* the adjusted balance, never a snapshot cached before the adjustment.
C30_SnapshotDropped ==
    a_fx.charged => GetUserFromCache(a_user).Balance = a_user.Balance

\* a request goroutine whose get found the cached data expired
SawExpired(t) == thr[t].op \in GetOps /\ thr[t].hadEntry /\ thr[t].expired
\* refreshes of expired data started by a get and not finished yet: the
\* goroutines GetModelConfig started and the callers refreshing themselves
InFlight ==
    {w \in Workers \ {"main"} : thr[w].pc \in Refreshing /\ (w \in Callers => SawExpired(w))}

\* C26: a get that finds the cached data older than its TTL does not carry
\* out the refresh itself: the refresh runs in another goroutine and the
\* caller goes on to return the stale value.
C26_ReadersNeverRefresh ==
    \A t \in Callers : SawExpired(t) => thr[t].pc \notin Refreshing

\* C27: at most one refresh started by get calls is in flight at any time.
C27_SingleFlight == Cardinality(InFlight) <= 1

\* C28: a goroutine with a store read or iteration in progress does not hold
\* the cache lock.
C28_NoLockAcrossStore == \A w \in storeRead : mu # w

\* C29: every get on cached data whose age is at least the TTL triggers a
\* refresh from the store.
C29_RefreshAtTTL ==
    \A t \in Callers :
        thr[t].op \in GetOps /\ thr[t].hadEntry /\ thr[t].age >= TTL => thr[t].triggered

\* C31: when the load of the model configurations from Firestore failed, at
\* startup or on refresh, the defaults are loaded: once PreCacheData or
\* RefreshCache has returned, the model cache is not empty.
C31_DefaultsOnStoreFailure ==
    \A w \in Workers :
        thr[w].op \in {"PreCacheData", "RefreshCache"} /\ thr[w].pc = "done" /\ thr[w].storeErr
            => entry.present

C33_NoChunkLost ==
    (kind = "google" /\ ret.err = "EOF" /\ ~closeCalled /\ p_end # "error") =>
        Len(delivered) = p_bytes

\* C34: a Google stream whose backend iterator yielded an error is not
\* reported as a clean EOF: when Read reports EOF on a stream the caller did
\* not close, a Read has returned the error.
C34_ErrorNotSwallowed ==
    (kind = "google" /\ p_end = "error" /\ ret.err = "EOF" /\ ~closeCalled) => failed

\* C35: the context under which the provider stream was opened is live when
\* GenerateStream has returned the stream and the handler is reading it.
C35_StreamContextLive == serve.pc = "streaming" => serve.ctx = "live"

\* C36: when the handler of a streaming request has returned, by EOF, by a
\* read error or by a failed write to the client, the stream it was handed
\* has been closed.
C36_HandlerClosesStream ==
    (serve.pc = "returned" /\ serve.handed) => (e_closes >= 1 /\ esr.Closed)

\* C37: every run of stream metering ends with the request logged and the
\* user charged: a Close that finds the usage not yet logged writes the log
\* entry, applies the charge and sets the usage-logged flag, also when the
\* prompt was optimized and the backend reported zero input tokens.
C37_MeteringCompletes ==
    [][(e_closes' > e_closes /\ ~esr.UsageLogged) =>
          /\ Len(store'.logs) = Len(store.logs) + 1
          /\ store'.chargeCalls = store.chargeCalls + 1
          /\ esr'.UsageLogged]_vars

\* the total cost of the success entries written to request_logs
RECURSIVE LoggedCost(_)
LoggedCost(rs) ==
    IF rs = {} THEN 0
    ELSE LET r == CHOOSE x \in rs : TRUE
         IN h_req[r].totalCost + LoggedCost(rs \ {r})

\* every request has been answered or has not started
Quiescent == \A r \in Reqs : h_pc[r] \in {"idle", "done"}

\* C38: the audit log and the balance agree: once the requests are answered,
\* the balance has been reduced by the total cost of every success entry in
\* request_logs, and a request whose charge failed has no success entry.
C38_LogAgreesWithBalance ==
    Quiescent =>
        /\ balance0 - user.Balance >= LoggedCost(requestLogs)
        /\ \A r \in Reqs : h_req[r].status = 500 => r \notin requestLogs

\* C39: for one blocking request the optimizer is invoked at most once, and
\* the prompt sent to the primary backend is the outcome of that single pass
\* over the caller's prompt plus at most one appended instruction, never an
\* optimization of an already optimized prompt.
C39_SingleOptimizationPass ==
    cfg.entry = "Generate" =>
        /\ Len(calls) <= 1
        /\ \A i \in 1..Len(calls) : \A j \in 1..(i - 1) :
               ~(~calls[j].err /\ calls[j].res.WasOptimized)
        /\ (o_pc = "done" /\ calls # <<>>) =>
               sent = IF ~calls[1].err /\ calls[1].res.WasOptimized
                      THEN WithSuffix(calls[1].res.OptimizedText)
                      ELSE calls[1].in

\* C40: GetCacheStats always returns under every interleaving with
\* PreCacheData, RefreshCache and model-config loads: no goroutine ever waits
\* for the read lock inside shouldRefreshCache, holding the read lock of
\* GetCacheStats, while a writer that called Lock waits for the readers to leave.
C40_StatsNeverDeadlocks ==
    \A t \in LockThreads :
        ~(/\ lk[t].pc = "should_rlock"
          /\ lk[t].held > 0
          /\ rw.writer # "none"
          /\ ~rw.granted)

====
